---- MODULE Spec2Model ----
(***************************************************************************)
(* A model of rndnet: the LFSR stream generator (Rand), the network        *)
(* variants (inference, copy) and the generational evolutionary loop.      *)
(*                                                                         *)
(* A 32-bit unsigned value is the pair <<hi, lo>> of its 16-bit halves     *)
(* (value = hi * 2^16 + lo), so that every operation keeps the width of    *)
(* Go's uint32.                                                            *)
(***************************************************************************)
EXTENDS Integers, Sequences, FiniteSets, TLC

VARIABLES
    \* SpecStream: two streams and the record of their draws
    ra, rb, outA, outB,
    \* the network variant and the heap of slice backing arrays
    variant, heap,
    \* SpecNet: a network, its copy, the caller's buffers; calls counts the
    \* Inference calls since the last write, prevOut is outputs before the last
    \* call, before the network, contents and inputs before it; shSrc and shCpy
    \* are the contents the source and the copy must have, wrote says which
    \* of the two was written
    net, cpy, inBuf, outBuf, calls, prevOut, before, shSrc, shCpy, wrote,
    \* SpecEvo: the population, the control stream rnd (rand), the position pc in the
    \* model function, the generation counter i (gen), the counter of the
    \* crossover or mutation loop (cnt), the dataset and the seed (seedArg); quality is
    \* the result.  evaluated is the fitness of the population before the
    \* last sort, best the rank-0 fitness of every generation so far, kept
    \* the contents of the kept genomes after the last truncation, last the
    \* record of the last crossover or mutation; runs holds, for every call of
    \* the model function so far, the sequence of its steps
    genomes, rand, pc, gen, cnt, data, seedArg, quality, evaluated, best, kept, last,
    runs,
    \* SpecSweep: the local variables of process, its channel and goroutines
    sweep,
    \* SpecPeriod: a power of the step of the stream
    power

streamVars == <<ra, rb, outA, outB>>
netVars == <<net, cpy, inBuf, outBuf, calls, prevOut, before, shSrc, shCpy, wrote>>
evoVars == <<genomes, rand, pc, gen, cnt, data, seedArg, quality, evaluated, best,
             kept, last, runs>>
restVars == <<sweep, power>>
vars == <<streamVars, variant, heap, netVars, evoVars, restVars>>

(***************************************************************************)
(* Bounds of the model.                                                    *)
(***************************************************************************)
\* draws made from the first stream of SpecStream
MaxDraws == 5
\* draws made from the second stream of SpecStream
MaxDrawsB == 2
\* the streams of SpecStream start at LFSRInit + k * NumGenomes, k in 0..MaxSeed
MaxSeed == 3

(***************************************************************************)
(* uint32 arithmetic on 16-bit halves.                                     *)
(***************************************************************************)
Half == 65536

RECURSIVE XorBits(_, _, _)
XorBits(a, b, n) ==
    IF n = 0 THEN 0
    ELSE IF b = 0 THEN a
    ELSE IF a = 0 THEN b
    ELSE (((a % 2) + (b % 2)) % 2) + 2 * XorBits(a \div 2, b \div 2, n - 1)

\* x ^ y on uint32
Xor32(x, y) == <<XorBits(x[1], y[1], 16), XorBits(x[2], y[2], 16)>>

\* x >> 1 on uint32
Shr1(x) == <<x[1] \div 2, (x[2] \div 2) + (x[1] % 2) * (Half \div 2)>>

\* Rand(x + k): Go adds in int (64 bits) and the conversion to Rand keeps the
\* low 32 bits
AddInt(x, k) ==
    LET lo == x[2] + k
    IN  <<(x[1] + (lo \div Half)) % Half, lo % Half>>

\* 0x80000000: the step is then a rotation of the register
LFSRMaskRotate == <<32768, 0>>

\* 0x00000057: the bit shifted out does not come back as the top bit
LFSRMaskLow == <<0, 87>>

\* 0x80000057
LFSRMask == <<32768, 87>>
\* 0x55555555
LFSRInit == <<21845, 21845>>

(***************************************************************************)
(* float32(x) for a uint32 x, as the integer it denotes (a pair whose hi   *)
(* half may be 2^16: float32(x) = 2^32 for x >= 2^32 - 128).  A float32    *)
(* has a 24-bit significand: the bits below it are rounded to nearest,     *)
(* ties to even.                                                           *)
(***************************************************************************)
RECURSIVE Log2(_)
Log2(n) == IF n <= 1 THEN 0 ELSE 1 + Log2(n \div 2)

RECURSIVE Pow2(_)
Pow2(n) == IF n = 0 THEN 1 ELSE 2 * Pow2(n - 1)

ToFloat32(x) ==
    IF x[1] < 256 THEN x
    ELSE LET d    == Log2(x[1]) - 7
             unit == Pow2(d)
             q    == x[2] \div unit
             r    == x[2] % unit
             up   == (2 * r > unit) \/ (2 * r = unit /\ q % 2 = 1)
             lo   == (q + (IF up THEN 1 ELSE 0)) * unit
         IN  IF lo = Half THEN <<x[1] + 1, 0>> ELSE <<x[1], lo>>

(***************************************************************************)
(* Rand.  Each method returns the new state of the receiver and the value  *)
(* returned to the caller.  The value of Float32 is the numerator n of     *)
(* n / 2^32: the divisor (1 << 32) - 1 is converted to float32, which      *)
(* rounds it to 2^32, and a float32 division by 2^32 is exact.             *)
(***************************************************************************)
\* Float32 without the store *r = lfsr
Float32NoStore(r) ==
    LET lfsr == IF r[2] % 2 = 1 THEN Xor32(Shr1(r), LFSRMask) ELSE Shr1(r)
    IN  [state |-> r, value |-> ToFloat32(lfsr)]

Float32(r) ==
    LET lfsr == IF r[2] % 2 = 1 THEN Xor32(Shr1(r), LFSRMask) ELSE Shr1(r)
    IN  [state |-> lfsr, value |-> ToFloat32(lfsr)]

\* Uint32 with the test of the low bit inverted
Uint32WrongBit(r) ==
    LET lfsr == IF r[2] % 2 = 0 THEN Xor32(Shr1(r), LFSRMask) ELSE Shr1(r)
    IN  [state |-> lfsr, value |-> lfsr]

Uint32(r) ==
    LET lfsr == IF r[2] % 2 = 1 THEN Xor32(Shr1(r), LFSRMask) ELSE Shr1(r)
    IN  [state |-> lfsr, value |-> lfsr]

(***************************************************************************)
(* float32 and complex64 values.  A float32 is an integer on the unit grid *)
(* or NaN; a complex64 is the pair <<re, im>> of two of them.  An          *)
(* operation that meets a NaN yields NaN, as in IEEE 754.                  *)
(***************************************************************************)
NaN == 1000000

IsNaN(x) == x = NaN
FAdd(x, y) == IF IsNaN(x) \/ IsNaN(y) THEN NaN ELSE x + y
FMul(x, y) == IF IsNaN(x) \/ IsNaN(y) THEN NaN ELSE x * y

CNaN == <<NaN, NaN>>
CIsNaN(z) == IsNaN(z[1]) \/ IsNaN(z[2])
CAdd(z, w) == IF CIsNaN(z) \/ CIsNaN(w) THEN CNaN ELSE <<z[1] + w[1], z[2] + w[2]>>
CMul(z, w) ==
    IF CIsNaN(z) \/ CIsNaN(w) THEN CNaN
    ELSE <<z[1] * w[1] - z[2] * w[2], z[1] * w[2] + z[2] * w[1]>>

\* 2*u - 1 for a value u = n / 2^32 of Float32, on the unit grid (rounded away
\* from zero): -1 below one half, 0 at one half, 1 above
Signed(u) == IF u[1] < 32768 THEN -1 ELSE IF u = <<32768, 0>> THEN 0 ELSE 1

\* x * float32(math.Sqrt(2 / float64(columns))) on the unit grid, for x in -1..1:
\* the factor is at most 1 from 2 columns on, and Sqrt(2) for 1 column
Factor(x, columns) == IF columns >= 2 THEN x ELSE 2 * x

\* the largest sum whose exponential is finite: float32(math.Exp(sum)) is +Inf
\* above it (88 for a float32; scaled to the unit grid and the few
\* generations of the model)
ExpMax == 19

\* e := float32(math.Exp(float64(sum))); e / (e + 1): Inf / Inf is NaN, and the
\* quotient is rounded to the unit grid (above one half, for a positive sum, to 1)
Logistic(sum) ==
    IF IsNaN(sum) \/ sum > ExpMax THEN NaN
    ELSE IF sum > 0 THEN 1 ELSE 0

\* e := complex64(cmplx.Exp(complex128(sum))); e / (e + 1): the modulus of e is
\* the exponential of the real part
CLogistic(sum) ==
    IF CIsNaN(sum) \/ sum[1] > ExpMax THEN CNaN
    ELSE <<IF sum[1] > 0 THEN 1 ELSE 0, 0>>

Variants == {"real", "complex", "shared", "random"}

Zero(v) == IF v = "complex" THEN <<0, 0>> ELSE 0

\* make([]T, n)
RECURSIVE Zeros(_, _)
Zeros(v, n) == IF n <= 0 THEN <<>> ELSE <<Zero(v)>> \o Zeros(v, n - 1)

(***************************************************************************)
(* The heap of slice backing arrays: heap[a] is the array at address a.    *)
(* A Weights or Biases field of a layer is such an address.                *)
(***************************************************************************)
\* the slice assigned in place of the copy: both layers share one array
CopySliceAliased(h, a) == [heap |-> h, addr |-> a]

\* make([]T, len(src)) followed by copy(dst, src)
CopySlice(h, a) == [heap |-> Append(h, h[a]), addr |-> Len(h) + 1]

(***************************************************************************)
(* Inference.  columns is the width of the next layer (or of outputs);     *)
(* the state of a layer pass is [values, rnd, ok], ok = FALSE after an     *)
(* index out of range.                                                     *)
(***************************************************************************)
RECURSIVE TrailingZeros(_)
\* bits.TrailingZeros(uint(c)): 64 for 0
TrailingZeros(c) ==
    IF c = 0 THEN 64 ELSE IF c % 2 = 1 THEN 0 ELSE 1 + TrailingZeros(c \div 2)

\* x & uint32((1 << t) - 1)
AndMask(x, t) ==
    IF t >= 32 THEN x
    ELSE IF t >= 16 THEN <<x[1] % Pow2(t - 16), x[2]>>
    ELSE <<0, x[2] % Pow2(t)>>

\* a pass that stored the advanced state back in the field
StoredRandAdvanced(field, rnd) == rnd

\* the field Rand of a layer after a pass that advanced rnd: rnd := layer.Rand
\* copies the value, the field is never written
StoredRand(field, rnd) == field

RECURSIVE RealSum(_, _, _, _, _, _, _)
\* for k, input := range inputs (k from 1 here, index from 0)
RealSum(inputs, k, index, weight, columns, rnd, sum) ==
    IF k > Len(inputs) THEN [sum |-> sum, rnd |-> rnd]
    ELSE IF index = <<0, k - 1>>
    THEN RealSum(inputs, k + 1, index, weight, columns, rnd,
                 FAdd(sum, FMul(inputs[k], weight)))
    ELSE LET f == Float32(rnd)
         IN  RealSum(inputs, k + 1, index, weight, columns, f.state,
                     FAdd(sum, FMul(inputs[k], Factor(Signed(f.value), columns))))

RECURSIVE RealUnits(_, _, _, _, _, _, _)
\* for j, weight := range layer.Weights
RealUnits(W, B, inputs, j, mask, columns, st) ==
    IF j > Len(W) \/ ~st.ok THEN st
    ELSE IF j > Len(B) \/ j > Len(st.values) THEN [st EXCEPT !.ok = FALSE]
    ELSE LET ix == Uint32(st.rnd)
             s  == RealSum(inputs, 1, AndMask(ix.value, mask), W[j], columns,
                           ix.state, B[j])
         IN  RealUnits(W, B, inputs, j + 1, mask, columns,
                       [values |-> [st.values EXCEPT ![j] = Logistic(s.sum)],
                        rnd |-> s.rnd, ok |-> TRUE])

RECURSIVE ComplexSum(_, _, _, _, _, _, _)
ComplexSum(inputs, k, index, weight, columns, rnd, sum) ==
    IF k > Len(inputs) THEN [sum |-> sum, rnd |-> rnd]
    ELSE IF index = <<0, k - 1>>
    THEN ComplexSum(inputs, k + 1, index, weight, columns, rnd,
                    CAdd(sum, CMul(inputs[k], weight)))
    ELSE LET re == Float32(rnd)
             im == Float32(re.state)
         IN  ComplexSum(inputs, k + 1, index, weight, columns, im.state,
                        CAdd(sum, CMul(inputs[k],
                                       <<Factor(Signed(re.value), columns),
                                         Factor(Signed(im.value), columns)>>)))

RECURSIVE ComplexUnits(_, _, _, _, _, _, _)
ComplexUnits(W, B, inputs, j, mask, columns, st) ==
    IF j > Len(W) \/ ~st.ok THEN st
    ELSE IF j > Len(B) \/ j > Len(st.values) THEN [st EXCEPT !.ok = FALSE]
    ELSE LET ix == Uint32(st.rnd)
             s  == ComplexSum(inputs, 1, AndMask(ix.value, mask), W[j], columns,
                              ix.state, B[j])
         IN  ComplexUnits(W, B, inputs, j + 1, mask, columns,
                          [values |-> [st.values EXCEPT ![j] = CLogistic(s.sum)],
                           rnd |-> s.rnd, ok |-> TRUE])

RECURSIVE SharedSum(_, _, _, _, _, _)
\* for k := 0; k < layer.Columns; k++: st = [sum, rnd, ok]
SharedSum(W, inputs, k, layerColumns, mask, st) ==
    IF k > layerColumns \/ ~st.ok THEN st
    ELSE LET ix  == Uint32(st.rnd)
             pos == AndMask(ix.value, mask)
         IN  IF k > Len(inputs) \/ pos[1] # 0 \/ pos[2] >= Len(W)
             THEN [st EXCEPT !.ok = FALSE]
             ELSE SharedSum(W, inputs, k + 1, layerColumns, mask,
                            [sum |-> FAdd(st.sum, FMul(inputs[k], W[pos[2] + 1])),
                             rnd |-> ix.state, ok |-> TRUE])

RECURSIVE SharedUnits(_, _, _, _, _, _, _)
\* for j := 0; j < layer.Rows; j++
SharedUnits(W, inputs, j, rows, layerColumns, mask, st) ==
    IF j > rows \/ ~st.ok THEN st
    ELSE LET ix  == Uint32(st.rnd)
             pos == AndMask(ix.value, mask)
         IN  IF pos[1] # 0 \/ pos[2] >= Len(W) THEN [st EXCEPT !.ok = FALSE]
             ELSE LET s == SharedSum(W, inputs, 1, layerColumns, mask,
                                     [sum |-> W[pos[2] + 1], rnd |-> ix.state,
                                      ok |-> TRUE])
                  IN  IF ~s.ok \/ j > Len(st.values) THEN [st EXCEPT !.ok = FALSE]
                      ELSE SharedUnits(W, inputs, j + 1, rows, layerColumns, mask,
                                       [values |-> [st.values EXCEPT
                                                       ![j] = Logistic(s.sum)],
                                        rnd |-> s.rnd, ok |-> TRUE])

RECURSIVE RandomSum(_, _, _, _, _)
\* for _, input := range inputs
RandomSum(inputs, k, columns, rnd, sum) ==
    IF k > Len(inputs) THEN [sum |-> sum, rnd |-> rnd]
    ELSE LET f == Float32(rnd)
         IN  RandomSum(inputs, k + 1, columns, f.state,
                       FAdd(sum, FMul(inputs[k], Factor(Signed(f.value), columns))))

RECURSIVE RandomUnits(_, _, _, _, _)
\* for j := 0; j < layer.Rows; j++
RandomUnits(inputs, j, rows, columns, st) ==
    IF j > rows \/ ~st.ok THEN st
    ELSE LET f == Float32(st.rnd)
             s == RandomSum(inputs, 1, columns, f.state,
                            Factor(Signed(f.value), columns))
         IN  IF j > Len(st.values) THEN [st EXCEPT !.ok = FALSE]
             ELSE RandomUnits(inputs, j + 1, rows, columns,
                              [values |-> [st.values EXCEPT ![j] = Logistic(s.sum)],
                               rnd |-> s.rnd, ok |-> TRUE])

\* the t of the mask uint32((1 << t) - 1): bits.TrailingZeros of Columns, or
\* of len(layer.Weights) for a shared layer
MaskBits(v, layer, h) ==
    IF v = "shared" THEN TrailingZeros(Len(h[layer.Weights]))
    ELSE TrailingZeros(layer.Columns)

\* the body of "for i, layer := range n" for one layer
LayerPass(v, layer, h, inputs, columns) ==
    LET st == [values |-> Zeros(v, columns), rnd |-> layer.Rand, ok |-> TRUE]
    IN  CASE v = "real" ->
                 RealUnits(h[layer.Weights], h[layer.Biases], inputs, 1,
                           MaskBits(v, layer, h), columns, st)
          [] v = "complex" ->
                 ComplexUnits(h[layer.Weights], h[layer.Biases], inputs, 1,
                              MaskBits(v, layer, h), columns, st)
          [] v = "shared" ->
                 SharedUnits(h[layer.Weights], inputs, 1, layer.Rows, layer.Columns,
                             MaskBits(v, layer, h), st)
          [] OTHER ->
                 RandomUnits(inputs, 1, layer.Rows, columns, st)

\* a copy that stops one value short
CopyIntoShort(outputs, values) ==
    [k \in 1..Len(outputs) |-> IF k < Len(values) THEN values[k] ELSE outputs[k]]

\* copy(outputs, values)
CopyInto(outputs, values) ==
    [k \in 1..Len(outputs) |-> IF k <= Len(values) THEN values[k] ELSE outputs[k]]

RECURSIVE InferenceFrom(_, _, _, _, _, _, _)
\* the layers from i on; cur is the local variable inputs
InferenceFrom(v, n, h, i, cur, inputs, outputs) ==
    IF i > Len(n)
    THEN [net |-> n, heap |-> h, inputs |-> inputs, outputs |-> outputs, ok |-> TRUE]
    ELSE LET columns == IF i < Len(n) THEN n[i + 1].Columns ELSE Len(outputs)
             rest(st, after) ==
                 IF ~st.ok
                 THEN [net |-> after, heap |-> h, inputs |-> inputs, outputs |-> outputs,
                       ok |-> FALSE]
                 ELSE IF i = Len(n)
                 THEN [net |-> after, heap |-> h, inputs |-> inputs,
                       outputs |-> CopyInto(outputs, st.values), ok |-> TRUE]
                 ELSE InferenceFrom(v, after, h, i + 1, st.values, inputs, outputs)
             pass(st) == rest(st, [n EXCEPT ![i].Rand = StoredRand(n[i].Rand, st.rnd)])
         IN  pass(LayerPass(v, n[i], h, cur, columns))

\* n.Inference(inputs, outputs): the network, the heap and the two buffers of
\* the caller after the call
Inference(v, n, h, inputs, outputs) == InferenceFrom(v, n, h, 1, inputs, inputs, outputs)

(***************************************************************************)
(* Copy.                                                                   *)
(***************************************************************************)
\* the layer l appended to the copy
CopyLayer(v, layer, h) ==
    CASE v \in {"real", "complex"} ->
             LET w == CopySlice(h, layer.Weights)
                 b == CopySlice(w.heap, layer.Biases)
             IN  [layer |-> [Columns |-> layer.Columns, Weights |-> w.addr,
                             Biases |-> b.addr, Rand |-> layer.Rand],
                  heap |-> b.heap]
      [] v = "shared" ->
             LET w == CopySlice(h, layer.Weights)
             IN  [layer |-> [Rows |-> layer.Rows, Columns |-> layer.Columns,
                             Weights |-> w.addr, Rand |-> layer.Rand],
                  heap |-> w.heap]
      [] OTHER ->
             [layer |-> [Rows |-> layer.Rows, Columns |-> layer.Columns,
                         Rand |-> layer.Rand],
              heap |-> h]

RECURSIVE CopyFrom(_, _, _, _, _)
CopyFrom(v, n, h, i, network) ==
    IF i > Len(n) THEN [net |-> network, heap |-> h]
    ELSE LET l == CopyLayer(v, n[i], h)
         IN  CopyFrom(v, n, l.heap, i + 1, Append(network, l.layer))

\* a copy that is the slice header only: the layers and their vectors shared
CopyHeader(v, n, h) == [net |-> n, heap |-> h]

\* n.Copy()
Copy(v, n, h) == CopyFrom(v, n, h, 1, <<>>)

(***************************************************************************)
(* SpecStream: two streams started from the same state, each drawn from    *)
(* by any mix of Float32 and Uint32 calls.  outA and outB record, per      *)
(* draw, the method called, the state before, and the value returned.      *)
(***************************************************************************)
NumGenomes == 2

\* the seeds of the program (LFSRInit + seed * NumGenomes and its
\* neighbours) and the corner states of the register
StreamSeeds ==
    {AddInt(LFSRInit, k * NumGenomes + j) : k \in 0..MaxSeed, j \in 0..1}
        \cup {<<0, 0>>, <<0, 1>>, <<32768, 0>>, <<65535, 65535>>, <<65535, 65408>>}

NoStream == ra = <<0, 0>> /\ rb = <<0, 0>> /\ outA = <<>> /\ outB = <<>>

NoNet ==
    /\ net = <<>> /\ cpy = <<>> /\ inBuf = <<>> /\ outBuf = <<>> /\ calls = 0
    /\ prevOut = <<>> /\ before = <<>> /\ shSrc = <<>> /\ shCpy = <<>> /\ wrote = {}

NoEvo ==
    /\ genomes = <<>> /\ rand = <<0, 0>> /\ pc = "" /\ gen = 0 /\ cnt = 0
    /\ data = <<>> /\ seedArg = 0 /\ quality = <<>> /\ evaluated = <<>>
    /\ best = <<>> /\ kept = <<>> /\ last = <<>> /\ runs = <<>>

NoRest == sweep = <<>> /\ power = <<>>

InitStream ==
    /\ ra \in StreamSeeds
    /\ rb = ra
    /\ outA = <<>>
    /\ outB = <<>>
    /\ variant = "real" /\ heap = <<>>
    /\ NoNet
    /\ NoEvo
    /\ NoRest

Call(r, kind) == IF kind = "Float32" THEN Float32(r) ELSE Uint32(r)

DrawA(kind) ==
    /\ Len(outA) < MaxDraws
    /\ ra' = Call(ra, kind).state
    /\ outA' = Append(outA, [kind |-> kind, pre |-> ra, value |-> Call(ra, kind).value])
    /\ UNCHANGED <<rb, outB, variant, heap, netVars, evoVars, restVars>>

DrawB(kind) ==
    /\ Len(outB) < MaxDrawsB
    /\ rb' = Call(rb, kind).state
    /\ outB' = Append(outB, [kind |-> kind, pre |-> rb, value |-> Call(rb, kind).value])
    /\ UNCHANGED <<ra, outA, variant, heap, netVars, evoVars, restVars>>

DrawAFloat32 == DrawA("Float32")
DrawAUint32 == DrawA("Uint32")
DrawBFloat32 == DrawB("Float32")
DrawBUint32 == DrawB("Uint32")

NextStream == DrawAFloat32 \/ DrawAUint32 \/ DrawBFloat32 \/ DrawBUint32

SpecStream == InitStream /\ [][NextStream]_vars

(***************************************************************************)
(* The dataset: rows of the iris table, measures rounded to the unit grid  *)
(* (float32(value)), and the index iris.Labels gives each label.           *)
(***************************************************************************)
Fisher ==
    << [Measures |-> <<5, 4, 1, 0>>, Label |-> 0],
       [Measures |-> <<7, 3, 5, 1>>, Label |-> 1],
       [Measures |-> <<6, 3, 6, 3>>, Label |-> 2],
       [Measures |-> <<5, 3, 1, 0>>, Label |-> 0],
       [Measures |-> <<6, 3, 5, 2>>, Label |-> 1] >>

\* the flowers of the dataset the model evaluates
NumFlowers == 3

\* inputs[k] = float32(value), or complex(float32(value), 0)
LoadInputs(v, flower) ==
    [k \in 1..Len(flower.Measures) |->
        IF v = "complex" THEN <<flower.Measures[k], 0>> ELSE flower.Measures[k]]

(***************************************************************************)
(* addNetwork: the state threaded is [rnd, heap, genomes].                 *)
(***************************************************************************)
Seeded(v) == v \in {"complex", "random"}

\* rnd := Rand(LFSRInit) or Rand(LFSRInit + seed)
ControlSeed(v, seed) == IF Seeded(v) THEN AddInt(LFSRInit, seed) ELSE LFSRInit

\* Rand(LFSRInit + i), or Rand(LFSRInit + i + seed + NumGenomes) for the first
\* layer and Rand(LFSRInit + i + seed + 2*NumGenomes) for the second
LayerSeed(v, i, seed, layer) ==
    IF Seeded(v) THEN AddInt(LFSRInit, i + seed + layer * NumGenomes)
    ELSE AddInt(LFSRInit, i)

RECURSIVE DrawWeights(_, _, _, _, _)
\* for i := range layer.Weights { layer.Weights[i] = (2*rnd.Float32() - 1) * factor }
DrawWeights(v, rnd, n, columns, acc) ==
    IF n = 0 THEN [weights |-> acc, rnd |-> rnd]
    ELSE IF v = "complex"
    THEN LET re == Float32(rnd)
             im == Float32(re.state)
         IN  DrawWeights(v, im.state, n - 1, columns,
                         Append(acc, <<Factor(Signed(re.value), columns),
                                       Factor(Signed(im.value), columns)>>))
    ELSE LET f == Float32(rnd)
         IN  DrawWeights(v, f.state, n - 1, columns,
                         Append(acc, Factor(Signed(f.value), columns)))

addNetwork(v, i, seed, st) ==
    CASE v \in {"real", "complex"} ->
             LET w1 == DrawWeights(v, st.rnd, 4, 4, <<>>)
                 w2 == DrawWeights(v, w1.rnd, 3, 3, <<>>)
                 a  == Len(st.heap)
                 network ==
                     << [Columns |-> 4, Weights |-> a + 1, Biases |-> a + 2,
                         Rand |-> LayerSeed(v, i, seed, 1)],
                        [Columns |-> 4, Weights |-> a + 3, Biases |-> a + 4,
                         Rand |-> LayerSeed(v, i, seed, 2)] >>
             IN  [rnd |-> w2.rnd,
                  heap |-> st.heap \o <<w1.weights, Zeros(v, 4), w2.weights, Zeros(v, 3)>>,
                  genomes |-> Append(st.genomes, [Network |-> network, Fitness |-> 0])]
      [] v = "shared" ->
             LET w1 == DrawWeights(v, st.rnd, 4, 4, <<>>)
                 w2 == DrawWeights(v, w1.rnd, 4, 3, <<>>)
                 a  == Len(st.heap)
                 network ==
                     << [Rows |-> 4, Columns |-> 4, Weights |-> a + 1,
                         Rand |-> LayerSeed(v, i, seed, 1)],
                        [Rows |-> 3, Columns |-> 4, Weights |-> a + 2,
                         Rand |-> LayerSeed(v, i, seed, 2)] >>
             IN  [rnd |-> w2.rnd,
                  heap |-> st.heap \o <<w1.weights, w2.weights>>,
                  genomes |-> Append(st.genomes, [Network |-> network, Fitness |-> 0])]
      [] OTHER ->
             LET network ==
                     << [Rows |-> 4, Columns |-> 4, Rand |-> LayerSeed(v, i, seed, 1)],
                        [Rows |-> 3, Columns |-> 4, Rand |-> LayerSeed(v, i, seed, 2)] >>
             IN  [rnd |-> st.rnd, heap |-> st.heap,
                  genomes |-> Append(st.genomes, [Network |-> network, Fitness |-> 0])]

RECURSIVE Populate(_, _, _)
\* for i := 0; i < NumGenomes; i++ { addNetwork(i) }: i is len(genomes)
Populate(v, seed, st) ==
    IF Len(st.genomes) >= NumGenomes THEN st
    ELSE Populate(v, seed, addNetwork(v, Len(st.genomes), seed, st))

\* the control stream, the heap and the genomes before the first generation
InitialPopulation(v, seed) ==
    Populate(v, seed, [rnd |-> ControlSeed(v, seed), heap |-> <<>>, genomes |-> <<>>])

\* the seeds the sweep passes: seed * NumGenomes
Seeds(v) == IF Seeded(v) THEN {k * NumGenomes : k \in 0..MaxSeed} ELSE {0}

(***************************************************************************)
(* SpecNet: one network of an initial population, in the order the search  *)
(* uses a genome: it is inferred from, flower after flower, then copied,   *)
(* then the source or the copy is written and inferred from.               *)
(***************************************************************************)
HasWeights(v) == v # "random"
HasBiases(v) == v \in {"real", "complex"}

\* what a network holds: per layer its shape, its stream state and the
\* contents of its vectors
Contents(v, n, h) ==
    [i \in 1..Len(n) |->
        [Columns |-> n[i].Columns,
         Rows    |-> IF v \in {"shared", "random"} THEN n[i].Rows ELSE 0,
         Rand    |-> n[i].Rand,
         Weights |-> IF HasWeights(v) THEN h[n[i].Weights] ELSE <<>>,
         Biases  |-> IF HasBiases(v) THEN h[n[i].Biases] ELSE <<>>]]

\* the addresses a network holds, layer by layer
Addresses(v, n) ==
    [i \in 1..Len(n) |->
        (IF HasWeights(v) THEN <<n[i].Weights>> ELSE <<>>)
            \o (IF HasBiases(v) THEN <<n[i].Biases>> ELSE <<>>)]

InitNet ==
    /\ NoStream
    /\ NoEvo
    /\ NoRest
    /\ variant \in Variants
    /\ \E seed \in Seeds(variant) \cap 0..NumGenomes, g \in 1..NumGenomes :
           LET st == InitialPopulation(variant, seed)
           IN  /\ heap = st.heap
               /\ net = st.genomes[g].Network
    /\ cpy = <<>>
    /\ inBuf = LoadInputs(variant, Fisher[1])
    /\ outBuf = Zeros(variant, 3)
    /\ calls = 0
    /\ prevOut = <<>>
    /\ before = <<>>
    /\ shSrc = Contents(variant, net, heap)
    /\ shCpy = <<>>
    /\ wrote = {}

\* the network Inference is called on: the one that was written, the source
\* before that
Target == IF wrote = {"cpy"} THEN cpy ELSE net

\* Target.Inference(inputs, outputs), not between a copy and the write
NetInference ==
    /\ cpy = <<>> \/ wrote # {}
    /\ calls < 2
    /\ LET r == Inference(variant, Target, heap, inBuf, outBuf)
       IN  /\ IF wrote = {"cpy"}
              THEN cpy' = r.net /\ net' = net
              ELSE net' = r.net /\ cpy' = cpy
           /\ heap' = r.heap
           /\ inBuf' = r.inputs
           /\ outBuf' = r.outputs
    /\ calls' = calls + 1
    /\ prevOut' = outBuf
    /\ before' = [net |-> net, cpy |-> cpy, heap |-> heap, inputs |-> inBuf]
    /\ UNCHANGED <<streamVars, evoVars, restVars, variant, shSrc, shCpy, wrote>>

\* for k, value := range flower.Measures { inputs[k] = float32(value) }
NetLoad ==
    /\ cpy = <<>>
    /\ calls > 0
    /\ \E f \in 1..NumFlowers :
           /\ inBuf # LoadInputs(variant, Fisher[f])
           /\ inBuf' = LoadInputs(variant, Fisher[f])
    /\ calls' = 0
    /\ UNCHANGED <<streamVars, evoVars, restVars, variant, heap, net, cpy, outBuf,
                   prevOut, before,
                   shSrc, shCpy, wrote>>

\* cpy := net.Copy()
NetCopy ==
    /\ cpy = <<>>
    /\ LET c == Copy(variant, net, heap)
       IN  cpy' = c.net /\ heap' = c.heap
    /\ shCpy' = shSrc
    /\ calls' = 0
    /\ UNCHANGED <<streamVars, evoVars, restVars, variant, net, inBuf, outBuf,
                   prevOut, before,
                   shSrc, wrote>>

\* x + 1 for a slot of either kind
PlusOne(v, x) == IF v = "complex" THEN CAdd(x, <<1, 0>>) ELSE FAdd(x, 1)

\* network[l].Weights[slot]++ or network[l].Biases[slot]++, on the source or
\* on the copy
NetWrite(who, l, vec, slot) ==
    /\ cpy # <<>>
    /\ wrote = {}
    /\ LET n == IF who = "src" THEN net ELSE cpy
           a == IF vec = "Weights" THEN n[l].Weights ELSE n[l].Biases
           x == PlusOne(variant, heap[a][slot])
       IN  /\ slot \in 1..Len(heap[a])
           /\ heap' = [heap EXCEPT ![a][slot] = x]
           /\ IF who = "src"
              THEN shSrc' = [shSrc EXCEPT ![l][vec][slot] = x] /\ shCpy' = shCpy
              ELSE shCpy' = [shCpy EXCEPT ![l][vec][slot] = x] /\ shSrc' = shSrc
    /\ wrote' = wrote \cup {who}
    /\ calls' = 0
    /\ UNCHANGED <<streamVars, evoVars, restVars, variant, net, cpy, inBuf, outBuf,
                   prevOut, before>>

NetWriteWeights ==
    /\ HasWeights(variant)
    /\ \E who \in {"src", "cpy"}, l \in 1..2, slot \in 1..4 :
           NetWrite(who, l, "Weights", slot)

NetWriteBiases ==
    /\ HasBiases(variant)
    /\ \E who \in {"src", "cpy"}, l \in 1..2, slot \in 1..4 :
           NetWrite(who, l, "Biases", slot)

NextNet == NetInference \/ NetLoad \/ NetCopy \/ NetWriteWeights \/ NetWriteBiases

SpecNet == InitNet /\ [][NextNet]_vars

(***************************************************************************)
(* SpecShape: Inference called once on a network of any shape, well-formed *)
(* or not, with an output buffer of any length.                            *)
(***************************************************************************)
\* the layers of a network and the widths of a vector
MaxLayers == 2
MaxWidth == 3

\* a value no unit computes, to tell a slot of outputs that was written
Unwritten(v) == IF v = "complex" THEN <<7, 0>> ELSE 7

\* the units of a layer: len(layer.Weights), or layer.Rows
Units(v, layer, h) ==
    IF v \in {"real", "complex"} THEN Len(h[layer.Weights]) ELSE layer.Rows

\* what the loops of Inference take for granted: the units of a layer are
\* the Columns of the next one, those of the last layer are len(outputs),
\* the inputs have the Columns of the first layer, a unit has its bias and
\* a shared layer has a weight
WellFormed(v, n, h, inputs, outputs) ==
    /\ Len(n) > 0
    /\ Len(inputs) = n[1].Columns
    /\ \A i \in 1..Len(n) :
           /\ Units(v, n[i], h) = IF i < Len(n) THEN n[i + 1].Columns ELSE Len(outputs)
           /\ HasBiases(v) => Len(h[n[i].Biases]) = Len(h[n[i].Weights])
           /\ v = "shared" => Len(h[n[i].Weights]) > 0

RECURSIVE Values(_, _, _, _, _, _)
\* values of the layers from i on, up to the one a pass fails in
Values(v, n, h, i, cur, outputs) ==
    IF i > Len(n) THEN <<>>
    ELSE LET rest(st) ==
                 IF ~st.ok THEN <<st.values>>
                 ELSE <<st.values>> \o Values(v, n, h, i + 1, st.values, outputs)
         IN  rest(LayerPass(v, n[i], h, cur,
                            IF i < Len(n) THEN n[i + 1].Columns ELSE Len(outputs)))

\* a layer of the variant with the given shape, its vectors at the end of
\* the heap
ShapedLayer(v, h, columns, units, weights, biases, seed) ==
    CASE v \in {"real", "complex"} ->
             [layer |-> [Columns |-> columns, Weights |-> Len(h) + 1,
                         Biases |-> Len(h) + 2, Rand |-> seed],
              heap |-> h \o <<DrawWeights(v, seed, units, columns, <<>>).weights,
                              Zeros(v, biases)>>]
      [] v = "shared" ->
             [layer |-> [Rows |-> units, Columns |-> columns, Weights |-> Len(h) + 1,
                         Rand |-> seed],
              heap |-> Append(h, DrawWeights(v, seed, weights, columns, <<>>).weights)]
      [] OTHER ->
             [layer |-> [Rows |-> units, Columns |-> columns, Rand |-> seed],
              heap |-> h]

RECURSIVE Shaped(_, _, _, _)
\* the network of the layers shapes describes
Shaped(v, shapes, i, st) ==
    IF i > Len(shapes) THEN st
    ELSE LET add(l) == Shaped(v, shapes, i + 1,
                              [net |-> Append(st.net, l.layer), heap |-> l.heap])
         IN  add(ShapedLayer(v, st.heap, shapes[i].columns, shapes[i].units,
                             shapes[i].weights, shapes[i].biases,
                             AddInt(LFSRInit, i)))

\* the shapes of a layer: for the variants without the vector, one length
\* stands for all
Shapes(v) ==
    [columns : 1..MaxWidth, units : 1..MaxWidth,
     weights : IF v = "shared" THEN {1, 2, MaxWidth} ELSE {0},
     biases : IF HasBiases(v) THEN 1..MaxWidth ELSE {0}]

InitShape ==
    /\ NoStream
    /\ NoEvo
    /\ NoRest
    /\ variant \in Variants
    /\ \E depth \in 1..MaxLayers :
           \E shapes \in [1..depth -> Shapes(variant)] :
               \E st \in {Shaped(variant, shapes, 1, [net |-> <<>>, heap |-> <<>>])} :
                   net = st.net /\ heap = st.heap
    /\ \E w \in 1..MaxWidth :
           inBuf = [k \in 1..w |-> IF variant = "complex"
                                   THEN <<Fisher[2].Measures[k], 0>>
                                   ELSE Fisher[2].Measures[k]]
    /\ \E w \in 1..MaxWidth : outBuf = [k \in 1..w |-> Unwritten(variant)]
    /\ cpy = <<>> /\ calls = 0 /\ prevOut = <<>> /\ before = <<>>
    /\ shSrc = <<>> /\ shCpy = <<>> /\ wrote = {}

\* net.Inference(inputs, outputs): before holds the arguments, whether the
\* call came back (no index out of range) and the values of its layers
ShapeInference ==
    /\ calls = 0
    /\ \E r \in {Inference(variant, net, heap, inBuf, outBuf)} :
           /\ net' = r.net
           /\ heap' = r.heap
           /\ inBuf' = r.inputs
           /\ outBuf' = r.outputs
           /\ before' = [net |-> net, heap |-> heap, inputs |-> inBuf,
                         outputs |-> outBuf, ok |-> r.ok,
                         masks |-> [i \in 1..Len(net) |->
                                       IF variant = "random" THEN 0
                                       ELSE MaskBits(variant, net[i], heap)],
                         values |-> Values(variant, net, heap, 1, inBuf, outBuf)]
    /\ calls' = 1
    /\ prevOut' = outBuf
    /\ UNCHANGED <<streamVars, evoVars, restVars, variant, cpy, shSrc, shCpy, wrote>>

NextShape == ShapeInference

SpecShape == InitShape /\ [][NextShape]_vars

\* the call was made on a well-formed network
ShapeCalled ==
    /\ calls = 1
    /\ WellFormed(variant, before.net, before.heap, before.inputs, before.outputs)

\* C15: Inference on a well-formed network, with inputs of the width of the
\* first layer, makes no access out of range, the values of every layer but
\* the last have the length Columns of the next layer, and every slot of
\* outputs, one per unit of the last layer, is written (and no more)
C15_InferenceShape ==
    ShapeCalled =>
        /\ before.ok
        /\ Len(before.values) = Len(net)
        /\ \A i \in 1..(Len(net) - 1) : Len(before.values[i]) = net[i + 1].Columns
        /\ Len(outBuf) = Len(before.outputs)
        /\ Len(outBuf) = Units(variant, net[Len(net)], heap)
        /\ \A k \in 1..Len(outBuf) : outBuf[k] # Unwritten(variant)
        /\ outBuf = before.values[Len(net)]

\* C22: in the real and the complex variant the mask of a layer with
\* Columns >= 1 is 2^floor(log2(Columns)) - 1, and the index a unit draws
\* with it is below Columns
C22_Mask ==
    (ShapeCalled /\ variant \in {"real", "complex"}) =>
        \A i \in 1..Len(net) :
            /\ before.masks[i] = Log2(net[i].Columns)
            /\ \E ix \in {AndMask(Uint32(net[i].Rand).value, before.masks[i])} :
                   ix[1] = 0 /\ ix[2] < net[i].Columns

C15_Witness ==
    /\ ShapeCalled
    /\ variant \in {"real", "shared"}
    /\ Len(net) = 2
    /\ net[2].Columns # Len(outBuf)
    /\ Len(outBuf) > 1
    /\ before.ok

(***************************************************************************)
(* Evaluation.  A fitness is a multiple of 1/65536 or NaN; a square root   *)
(* is a multiple of 1/256.                                                 *)
(***************************************************************************)
\* float32(math.Sqrt(float64(n))) in units of 1/256, rounded down
Sqrt8(n) == CHOOSE r \in 0..512 : r * r <= n * 65536 /\ n * 65536 < (r + 1) * (r + 1)

\* the real part of an output (its imaginary part is zero on the grid)
Re(v, x) == IF v = "complex" THEN (IF CIsNaN(x) THEN NaN ELSE x[1]) ELSE x

RECURSIVE Loss(_, _, _, _)
\* for l, output := range outputs { diff := expected[l] - output; loss += diff * diff }
\* with expected[iris.Labels[flower.Label]] = 1
Loss(v, label, outputs, l) ==
    IF l > Len(outputs) THEN 0
    ELSE LET diff == FAdd(IF l = label + 1 THEN 1 ELSE 0, FMul(-1, Re(v, outputs[l])))
         IN  FAdd(FMul(diff, diff), Loss(v, label, outputs, l + 1))

\* loss = float32(math.Sqrt(float64(loss)))
SqrtLoss(loss) == IF IsNaN(loss) THEN NaN ELSE Sqrt8(loss)

RECURSIVE Flowers(_, _, _, _)
\* for _, flower := range datum.Fisher: st = [net, heap, inputs, outputs, sum]
Flowers(v, flowers, f, st) ==
    IF f > Len(flowers) THEN st
    ELSE LET rest(r) ==
                 Flowers(v, flowers, f + 1,
                         [net |-> r.net, heap |-> r.heap, inputs |-> r.inputs,
                          outputs |-> r.outputs,
                          sum |-> FAdd(st.sum,
                                       SqrtLoss(Loss(v, flowers[f].Label, r.outputs, 1)))])
         IN  rest(Inference(v, st.net, st.heap, LoadInputs(v, flowers[f]), st.outputs))

\* sum /= float32(len(datum.Fisher)) * float32(math.Sqrt(3)), and for the
\* complex variant float32(cmplx.Abs(complex128(sum)))
Fitness(sum, n) == IF IsNaN(sum) THEN NaN ELSE (sum * 65536) \div (n * Sqrt8(3))

RECURSIVE EvalAllKept(_, _, _, _)
\* an evaluation of the first NumGenomes genomes only
EvalAllKept(v, flowers, j, st) ==
    IF j > Len(st.genomes) \/ j > NumGenomes THEN st
    ELSE LET rest(r) ==
                 EvalAllKept(v, flowers, j + 1,
                             [genomes |-> [st.genomes EXCEPT
                                              ![j] = [Network |-> r.net,
                                                      Fitness |-> Fitness(r.sum,
                                                                          Len(flowers))]],
                              heap |-> r.heap, inputs |-> r.inputs,
                              outputs |-> r.outputs])
         IN  rest(Flowers(v, flowers, 1,
                          [net |-> st.genomes[j].Network, heap |-> st.heap,
                           inputs |-> st.inputs, outputs |-> st.outputs, sum |-> 0]))

RECURSIVE EvalAll(_, _, _, _)
\* for j, genome := range genomes { ...; genomes[j].Fitness = sum }:
\* st = [genomes, heap, inputs, outputs]
EvalAll(v, flowers, j, st) ==
    IF j > Len(st.genomes) THEN st
    ELSE LET rest(r) ==
                 EvalAll(v, flowers, j + 1,
                         [genomes |-> [st.genomes EXCEPT
                                          ![j] = [Network |-> r.net,
                                                  Fitness |-> Fitness(r.sum, Len(flowers))]],
                          heap |-> r.heap, inputs |-> r.inputs, outputs |-> r.outputs])
         IN  rest(Flowers(v, flowers, 1,
                          [net |-> st.genomes[j].Network, heap |-> st.heap,
                           inputs |-> st.inputs, outputs |-> st.outputs, sum |-> 0]))

(***************************************************************************)
(* Selection: sort.Slice with the comparator of the variant; on at most    *)
(* twelve elements sort.Slice is an insertion sort.                        *)
(***************************************************************************)
\* the func passed to sort.Slice: a comparison with a NaN is false; the
\* complex and the shared variant test math.IsNaN first
Less(v, x, y) ==
    IF v \in {"complex", "shared"}
    THEN IF IsNaN(x.Fitness) THEN FALSE
         ELSE IF IsNaN(y.Fitness) THEN TRUE
         ELSE x.Fitness < y.Fitness
    ELSE ~IsNaN(x.Fitness) /\ ~IsNaN(y.Fitness) /\ x.Fitness < y.Fitness

RECURSIVE Sink(_, _, _)
\* for j := i; j > a && less(j, j-1); j-- { swap(j, j-1) }
Sink(v, s, j) ==
    IF j > 1 /\ Less(v, s[j], s[j - 1])
    THEN Sink(v, [s EXCEPT ![j] = s[j - 1], ![j - 1] = s[j]], j - 1)
    ELSE s

RECURSIVE InsertionSort(_, _, _)
\* for i := a + 1; i < b; i++
InsertionSort(v, s, i) ==
    IF i > Len(s) THEN s ELSE InsertionSort(v, Sink(v, s, i), i + 1)

\* the slice left as sort.Slice ordered it
TruncateNone(s) == s

\* genomes = genomes[:NumGenomes]
Truncate(s) == SubSeq(s, 1, NumGenomes)

\* a comparator that orders no population
OrderedNever(v, s) == FALSE

\* less is a strict weak ordering of the fitness values of s, as sort.Slice
\* requires: the comparator tests for NaN, or no fitness is NaN (< on floats
\* is not a transitive ordering when a NaN is involved)
Ordered(v, s) ==
    v \in {"complex", "shared"} \/ \A j \in 1..Len(s) : ~IsNaN(s[j].Fitness)

\* the kept genomes sort.Slice and the truncation can leave: those of the
\* sorted order, and, when less is not an ordering, the first NumGenomes of
\* any order of the population (the order sort.Slice leaves is then
\* unspecified: a NaN taken as pivot stays first, a NaN met by the insertion
\* sort stops the genomes behind it)
Selected(v, s) ==
    IF Ordered(v, s) THEN {Truncate(InsertionSort(v, s, 2))}
    ELSE {[j \in 1..NumGenomes |-> s[p[j]]] :
             p \in {q \in [1..NumGenomes -> 1..Len(s)] :
                       \A i, j \in 1..NumGenomes : i # j => q[i] # q[j]}}

(***************************************************************************)
(* Reproduction.  A step returns [genomes, heap, rnd, last].               *)
(***************************************************************************)
\* rnd.Float32() > genome.Fitness, for u = n / 2^32 and a fitness f / 65536
Gt(u, f) == ~IsNaN(f) /\ (u[1] > f \/ (u[1] = f /\ u[2] > 0))

\* a population get never returns from
SelectableNever(s) == FALSE

\* some draw selects some genome: Float32 returns at most 1
Selectable(s) == \E i \in 1..Len(s) : ~IsNaN(s[i].Fitness) /\ s[i].Fitness < 65536

RECURSIVE Scan(_, _, _)
\* for { for i, genome := range genomes { if rnd.Float32() > genome.Fitness { return i } } }
Scan(s, i, r) ==
    LET f == Float32(r)
    IN  IF Gt(f.value, s[i].Fitness) THEN [index |-> i, rnd |-> f.state]
        ELSE Scan(s, IF i = Len(s) THEN 1 ELSE i + 1, f.state)

\* a scan that starts at the second genome
getSecond(s, r) == Scan(s, 2, r)

get(s, r) == Scan(s, 1, r)

\* rnd.Uint32() & m, for m = 1 and m = 3
DrawBits(r, m) ==
    LET u == Uint32(r) IN [value |-> u.value[2] % (m + 1), state |-> u.state]

\* a draw the variant does not make
NoDraw(r) == [value |-> 0, state |-> r]

RECURSIVE Redraw(_, _, _)
\* if layer == 1 { for value > 2 { value = rnd.Uint32() & 3 } }
Redraw(layer, value, r) ==
    IF layer = 1 /\ value > 2
    THEN LET d == DrawBits(r, 3) IN Redraw(layer, d.value, d.state)
    ELSE [value |-> value, state |-> r]

\* layerA.Rand = layerA.Rand ^ layerB.Rand: layerA is a copy of the struct
\* networkA[layer], the assignment does not reach networkA
StoreLocalRand(network, layer, x) == network

Offspring(network) == [Network |-> network, Fitness |-> 0]

\* a swap that takes both values from the slot valueA
SwapSameSlot(h, layerA, valueA, layerB, valueB) ==
    [h EXCEPT ![layerA][valueA] = h[layerB][valueA], ![layerB][valueA] = h[layerA][valueA]]

\* layerA.Weights[valueA], layerB.Weights[valueB] =
\*     layerB.Weights[valueB], layerA.Weights[valueA]  (or the same on Biases):
\* layerA and layerB are the addresses of the two vectors
Swap(h, layerA, valueA, layerB, valueB) ==
    [h EXCEPT ![layerA][valueA] = h[layerB][valueB], ![layerB][valueB] = h[layerA][valueA]]

\* one pass of for i := 0; i < 256; i++ { a, b := get(), get(); ... }
Crossover(v, s, h, r) ==
    LET append(a, b, layer, vec, valueA, valueB, networkA, networkB) ==
            LET done == [op |-> "crossover", a |-> a.index, b |-> b.index,
                         layer |-> layer.value, vector |-> vec,
                         valueA |-> valueA.value, valueB |-> valueB.value,
                         parentA |-> Contents(v, s[a.index].Network, h),
                         parentB |-> Contents(v, s[b.index].Network, h),
                         at |-> Len(s) + 1]
            IN  IF HasWeights(v)
                THEN [genomes |-> s \o <<Offspring(networkA.net), Offspring(networkB.net)>>,
                      heap |-> Swap(networkB.heap,
                                    networkA.net[layer.value + 1][vec], valueA.value + 1,
                                    networkB.net[layer.value + 1][vec], valueB.value + 1),
                      rnd |-> valueB.state, last |-> done]
                ELSE [genomes |->
                          Append(s, Offspring(StoreLocalRand(
                                        networkA.net, layer.value + 1,
                                        Xor32(networkA.net[layer.value + 1].Rand,
                                              networkB.net[layer.value + 1].Rand)))),
                      heap |-> networkB.heap, rnd |-> valueB.state, last |-> done]
        copyB(a, b, layer, vec, valueA, valueB, networkA) ==
            append(a, b, layer, vec, valueA, valueB, networkA,
                   Copy(v, s[b.index].Network, networkA.heap))
        redrawB(a, b, layer, vec, drawB, valueA) ==
            copyB(a, b, layer, vec, valueA,
                  IF HasWeights(v) THEN Redraw(layer.value, drawB.value, valueA.state)
                  ELSE NoDraw(valueA.state),
                  Copy(v, s[a.index].Network, h))
        redrawA(a, b, layer, vec, drawA, drawB) ==
            redrawB(a, b, layer, vec, drawB,
                    IF HasWeights(v) THEN Redraw(layer.value, drawA.value, drawB.state)
                    ELSE NoDraw(drawB.state))
        drawValueB(a, b, layer, vector, drawA) ==
            redrawA(a, b, layer, IF vector.value = 0 THEN "Weights" ELSE "Biases", drawA,
                    IF HasWeights(v) THEN DrawBits(drawA.state, 3) ELSE NoDraw(drawA.state))
        drawValueA(a, b, layer, vector) ==
            drawValueB(a, b, layer, vector,
                       IF HasWeights(v) THEN DrawBits(vector.state, 3)
                       ELSE NoDraw(vector.state))
        drawVector(a, b, layer) ==
            drawValueA(a, b, layer,
                       IF HasBiases(v) THEN DrawBits(layer.state, 1) ELSE NoDraw(layer.state))
        drawLayer(a, b) == drawVector(a, b, DrawBits(b.rnd, 1))
        getB(a) == drawLayer(a, get(s, a.rnd))
    IN  getB(get(s, r))

\* complex(delta, 0), complex(0, delta), or delta
Delta(v, part, delta) ==
    IF v = "complex" THEN (IF part = 0 THEN <<delta, 0>> ELSE <<0, delta>>) ELSE delta

\* an assignment that adds the delta twice
PlusAssignTwice(v, x, d) ==
    IF v = "complex" THEN CAdd(CAdd(x, d), d) ELSE FAdd(FAdd(x, d), d)

\* x += d
PlusAssign(v, x, d) == IF v = "complex" THEN CAdd(x, d) ELSE FAdd(x, d)

\* one pass of for i := 0; i < NumGenomes; i++ { ...; network := genomes[i].Network.Copy(); ... }
\* (i from 1 here)
Mutation(v, s, h, r, i) ==
    LET append(layer, vec, value, part, u, network, d) ==
            [genomes |-> Append(s, Offspring(network.net)),
             heap |-> [network.heap EXCEPT
                          ![network.net[layer.value + 1][vec]][value.value + 1] =
                              PlusAssign(v, network.heap[network.net[layer.value + 1][vec]]
                                                        [value.value + 1], d)],
             rnd |-> u.state,
             last |-> [op |-> "mutation", i |-> i, layer |-> layer.value, vector |-> vec,
                       value |-> value.value, part |-> part.value, u |-> u.value,
                       delta |-> d, parent |-> Contents(v, s[i].Network, h),
                       at |-> Len(s) + 1]]
        drawDelta(layer, vec, value, part, u) ==
            append(layer, vec, value, part, u, Copy(v, s[i].Network, h),
                   Delta(v, part.value, Signed(u.value)))
        redraw(layer, vec, part, value) ==
            drawDelta(layer, vec, value, part, Float32(value.state))
        drawPart(layer, vec, draw, part) ==
            redraw(layer, vec, part, Redraw(layer.value, draw.value, part.state))
        drawValue(layer, vector, draw) ==
            drawPart(layer, IF vector.value = 0 THEN "Weights" ELSE "Biases", draw,
                     IF v = "complex" THEN DrawBits(draw.state, 1) ELSE NoDraw(draw.state))
        drawVector(layer, vector) == drawValue(layer, vector, DrawBits(vector.state, 3))
        drawLayer(layer) ==
            drawVector(layer, IF HasBiases(v) THEN DrawBits(layer.state, 1)
                              ELSE NoDraw(layer.state))
    IN  drawLayer(DrawBits(r, 1))

(***************************************************************************)
(* SpecEvo: the model function of a variant, one action per step of its    *)
(* loop.                                                                   *)
(***************************************************************************)
\* the last value of i for which the loop goes on (if i > 127 { break })
LastGen == 1

\* the passes of the crossover loop: the literal 256, the value of NumGenomes
NumCrossovers == NumGenomes

\* the flowers of datum.Fisher: NumFlowers rows of the table in a row
Datasets == {SubSeq(Fisher, d, d + NumFlowers - 1) : d \in 1..(Len(Fisher) - NumFlowers + 1)}

FitnessOf(s) == [j \in 1..Len(s) |-> s[j].Fitness]

\* a step of the model function as its caller could observe it: the phase
\* and the pass of its loop, the control stream, the population
Snapshot(v, phase, step, r, s, h) ==
    [phase |-> phase, step |-> step, rnd |-> r,
     population |-> [j \in 1..Len(s) |->
                        [Network |-> Contents(v, s[j].Network, h),
                         Fitness |-> s[j].Fitness]]]

\* the last step of a call: what the function returns goes with it
Return(snap, q) ==
    [phase |-> snap.phase, step |-> snap.step, rnd |-> snap.rnd,
     population |-> snap.population, quality |-> q]

\* the step added to the steps of the current call
Record(rs, snap) == [rs EXCEPT ![Len(rs)] = Append(@, snap)]

InitEvo ==
    /\ NoStream
    /\ NoRest
    /\ variant \in Variants
    /\ seedArg \in Seeds(variant)
    /\ data \in Datasets
    /\ LET st == InitialPopulation(variant, seedArg)
       IN  genomes = st.genomes /\ heap = st.heap /\ rand = st.rnd
    /\ net = <<>> /\ cpy = <<>> /\ calls = 0 /\ prevOut = <<>> /\ before = <<>>
    /\ shSrc = <<>> /\ shCpy = <<>> /\ wrote = {}
    /\ inBuf = Zeros(variant, 4)
    /\ outBuf = Zeros(variant, 3)
    /\ pc = "eval" /\ gen = 0 /\ cnt = 0
    /\ quality = <<>> /\ evaluated = <<>> /\ best = <<>> /\ kept = <<>> /\ last = <<>>
    /\ runs = << <<Snapshot(variant, "Init", 0, rand, genomes, heap)>> >>

evoFrame == <<streamVars, restVars, variant, net, cpy, calls, prevOut, before, shSrc,
              shCpy, wrote, data, seedArg>>

\* for j, genome := range genomes { ... genomes[j].Fitness = sum }
Evaluate ==
    /\ pc = "eval"
    /\ \E r \in {EvalAll(variant, data, 1,
                         [genomes |-> genomes, heap |-> heap, inputs |-> inBuf,
                          outputs |-> outBuf])} :
           /\ genomes' = r.genomes
           /\ heap' = r.heap
           /\ inBuf' = r.inputs
           /\ outBuf' = r.outputs
           /\ evaluated' = FitnessOf(r.genomes)
    /\ pc' = "select"
    /\ runs' = Record(runs, Snapshot(variant, "Evaluate", 0, rand, genomes', heap'))
    /\ UNCHANGED <<evoFrame, rand, gen, cnt, quality, best, kept, last>>

\* sort.Slice(genomes, less); genomes = genomes[:NumGenomes]; i++; if i > 127 { break }
Select ==
    /\ pc = "select"
    /\ genomes' \in Selected(variant, genomes)
    /\ best' = Append(best, genomes'[1].Fitness)
    /\ kept' = [j \in 1..Len(genomes') |-> Contents(variant, genomes'[j].Network, heap)]
    /\ gen' = gen + 1
    /\ cnt' = 0
    /\ pc' = IF gen + 1 > LastGen THEN "quality" ELSE "crossover"
    /\ runs' = Record(runs, Snapshot(variant, "Select", 0, rand, genomes', heap))
    /\ UNCHANGED <<evoFrame, heap, inBuf, outBuf, rand, quality, evaluated, last>>

\* one pass of the crossover loop; get never returns when no genome is
\* selectable
CrossoverStep ==
    /\ pc = "crossover"
    /\ IF ~Selectable(genomes)
       THEN /\ pc' = "spin"
            /\ UNCHANGED <<genomes, heap, rand, last, cnt, runs>>
       ELSE \E r \in {Crossover(variant, genomes, heap, rand)} :
                /\ genomes' = r.genomes
                /\ heap' = r.heap
                /\ rand' = r.rnd
                /\ last' = r.last
                /\ runs' = Record(runs, Snapshot(variant, "Crossover", cnt, r.rnd,
                                                 r.genomes, r.heap))
                /\ IF cnt + 1 < NumCrossovers
                   THEN cnt' = cnt + 1 /\ pc' = pc
                   ELSE cnt' = 0 /\ pc' = IF variant = "random" THEN "eval" ELSE "mutation"
    /\ UNCHANGED <<evoFrame, inBuf, outBuf, gen, quality, evaluated, best, kept>>

\* one pass of the mutation loop
MutationStep ==
    /\ pc = "mutation"
    /\ \E r \in {Mutation(variant, genomes, heap, rand, cnt + 1)} :
           /\ genomes' = r.genomes
           /\ heap' = r.heap
           /\ rand' = r.rnd
           /\ last' = r.last
           /\ runs' = Record(runs, Snapshot(variant, "Mutation", cnt, r.rnd,
                                            r.genomes, r.heap))
    /\ IF cnt + 1 < NumGenomes
       THEN cnt' = cnt + 1 /\ pc' = pc
       ELSE cnt' = 0 /\ pc' = "eval"
    /\ UNCHANGED <<evoFrame, inBuf, outBuf, gen, quality, evaluated, best, kept>>

\* max, index := float32(0), 0; for j, output := range outputs { if output > max { ... } }
\* (the index from 0)
ArgMax(v, outputs) ==
    LET RECURSIVE Walk(_, _, _)
        Walk(j, max, index) ==
            IF j > Len(outputs) THEN index
            ELSE LET out == Re(v, outputs[j])
                 IN  IF ~IsNaN(out) /\ out > max THEN Walk(j + 1, out, j - 1)
                     ELSE Walk(j + 1, max, index)
    IN  Walk(1, 0, 0)

RECURSIVE Misses(_, _, _, _)
\* for _, flower := range datum.Fisher: st = [net, heap, inputs, outputs, misses]
Misses(v, flowers, f, st) ==
    IF f > Len(flowers) THEN st
    ELSE LET rest(r) ==
                 Misses(v, flowers, f + 1,
                        [net |-> r.net, heap |-> r.heap, inputs |-> r.inputs,
                         outputs |-> r.outputs,
                         misses |-> st.misses
                                      + IF ArgMax(v, r.outputs) # flowers[f].Label
                                        THEN 1 ELSE 0])
         IN  rest(Inference(v, st.net, st.heap, LoadInputs(v, flowers[f]), st.outputs))

\* network := genomes[0].Network; ...; quality := float64(misses) / float64(total)
Quality ==
    /\ pc = "quality"
    /\ \E r \in {Misses(variant, data, 1,
                        [net |-> genomes[1].Network, heap |-> heap, inputs |-> inBuf,
                         outputs |-> outBuf, misses |-> 0])} :
           /\ genomes' = [genomes EXCEPT ![1].Network = r.net]
           /\ heap' = r.heap
           /\ inBuf' = r.inputs
           /\ outBuf' = r.outputs
           /\ quality' = <<r.misses, Len(data)>>
           /\ runs' = Record(runs, Return(Snapshot(variant, "Terminal", 0, rand,
                                                   genomes', r.heap),
                                          <<r.misses, Len(data)>>))
    /\ pc' = "done"
    /\ UNCHANGED <<evoFrame, rand, gen, cnt, evaluated, best, kept, last>>

NextEvo == Evaluate \/ Select \/ CrossoverStep \/ MutationStep \/ Quality

SpecEvo == InitEvo /\ [][NextEvo]_vars

\* the model function is one sequential routine: a step that can be taken is
\* taken
FairEvo == SpecEvo /\ WF_vars(NextEvo)

\* C16: in the random variant the offspring a crossover appends holds, in
\* the layer drawn, the XOR of the stream states of parent a and parent b,
\* and is parent a in every other field
C16_OffspringXor ==
    (variant = "random" /\ pc \in {"crossover", "eval"} /\ gen > 0 /\ last # <<>>) =>
        LET child == Contents(variant, genomes[last.at].Network, heap)
        IN  \A l \in 1..Len(child) :
                /\ child[l].Rows = last.parentA[l].Rows
                /\ child[l].Columns = last.parentA[l].Columns
                /\ child[l].Rand = IF l = last.layer + 1
                                   THEN Xor32(last.parentA[l].Rand, last.parentB[l].Rand)
                                   ELSE last.parentA[l].Rand

RECURSIVE AfterDraws(_, _)
\* the control stream after k draws
AfterDraws(r, k) == IF k = 0 THEN r ELSE AfterDraws(Float32(r).state, k - 1)

\* the position (from 1) the k-th draw of a scan of s is made for
Visited(s, k) == ((k - 1) % Len(s)) + 1

\* the k-th draw of a scan of s that starts with the stream at r is above
\* the fitness of the genome it is made for
Accepted(s, r, k) ==
    LET u == Float32(AfterDraws(r, k - 1)).value
        f == s[Visited(s, k)].Fitness
    IN  ~IsNaN(f) /\ (f < u[1] \/ (f = u[1] /\ u[2] > 0))

RECURSIVE FirstAccepted(_, _, _)
\* the first draw from the k-th on that is above the fitness of its genome
FirstAccepted(s, r, k) == IF Accepted(s, r, k) THEN k ELSE FirstAccepted(s, r, k + 1)

\* a call of get on s with the stream at r makes n draws and returns i
\* (from 1): the first n - 1 draws are not above the fitness of the genomes
\* they are made for, the n-th is, and it is made for genome i
Returns(s, r, n, i) ==
    /\ \A k \in 1..(n - 1) : ~Accepted(s, r, k)
    /\ Accepted(s, r, n)
    /\ i = Visited(s, n)

\* C20: get scans the population from position 0, with one new draw of the
\* control stream for each genome it visits, position after position and
\* from position 0 again after the last, and returns the first position
\* whose fitness is below the draw made for it: never a genome whose
\* fitness is NaN or not below its draw; the second get of a crossover goes
\* on with the stream where the first left it
C20_Get ==
    [][(pc = "crossover" /\ pc' # "spin") =>
          \E n \in {FirstAccepted(genomes, rand, 1)} :
              \E m \in {FirstAccepted(genomes, AfterDraws(rand, n), 1)} :
              /\ Returns(genomes, rand, n, last'.a)
              /\ Returns(genomes, AfterDraws(rand, n), m, last'.b)
              /\ ~IsNaN(genomes[last'.a].Fitness)
              /\ ~IsNaN(genomes[last'.b].Fitness)]_vars

\* a crossover whose first get passed over the whole population once and
\* then returned a genome that is not at position 0
C20_Witness ==
    /\ last # <<>>
    /\ last.op = "crossover"
    /\ last.a > 1
    /\ \E k \in 1..(Len(runs[Len(runs)]) - 1) :
           LET x == runs[Len(runs)][k]
               y == runs[Len(runs)][k + 1]
           IN  /\ y.phase = "Crossover"
               /\ y.rnd = rand
               /\ \A j \in 1..Len(x.population) : ~Accepted(x.population, x.rnd, j)

\* C21: the parents get returns in a Reproduce phase are kept genomes:
\* positions below NumGenomes (from 1 here: at most NumGenomes), never an
\* offspring appended earlier in the phase
C21_ParentsKept ==
    (last # <<>> /\ last.op = "crossover" /\ pc \in {"crossover", "mutation", "eval"}) =>
        last.a <= NumGenomes /\ last.b <= NumGenomes

\* the slots value can end with in layer (from 0) of a crossover or a
\* mutation, over the draws the streams of StreamSeeds give
SlotsDrawn(layer) ==
    {Redraw(layer, first.value, first.state).value :
        first \in {DrawBits(from, 3) : from \in StreamSeeds}}

\* C23: the slots crossover and mutation can choose in a vector of a layer
\* are the valid indices of that vector, all of them and no other (the 4
\* weights of either layer of the shared variant included)
C23_Slots ==
    (HasWeights(variant) /\ pc \in {"crossover", "mutation"}) =>
        \A g \in 1..Len(genomes) : \A l \in 1..Len(genomes[g].Network) :
            /\ SlotsDrawn(l - 1) = 0..(Len(heap[genomes[g].Network[l].Weights]) - 1)
            /\ HasBiases(variant) =>
                   SlotsDrawn(l - 1) = 0..(Len(heap[genomes[g].Network[l].Biases]) - 1)

\* the value the control stream starts from and the stream states stored in
\* the layers of the population, genome after genome
InitialStreams ==
    <<ControlSeed(variant, seedArg)>>
        \o [k \in 1..(2 * Len(genomes)) |->
               genomes[(k + 1) \div 2].Network[((k + 1) % 2) + 1].Rand]

\* C26: when a run starts, the control stream and the streams of the 2 *
\* NumGenomes layers start from values that differ two by two
C26_DistinctStreams ==
    (gen = 0 /\ pc = "eval") =>
        /\ Len(InitialStreams) = 2 * NumGenomes + 1
        /\ \A i, j \in 1..Len(InitialStreams) :
               i # j => InitialStreams[i] # InitialStreams[j]

(***************************************************************************)
(* SpecTwice: a process that calls the model function of a variant again   *)
(* with the seed and the flowers of the call before, as the seed sweep and *)
(* a second start of the program do.                                       *)
(***************************************************************************)
\* the calls of the model function
MaxCalls == 2

\* func XNetworkModel(seed int) float64: rnd, genomes, inputs, outputs and i
\* are locals the call makes anew; the package has no variable a call
\* assigns to
Again ==
    /\ pc = "done"
    /\ Len(runs) < MaxCalls
    /\ \E st \in {InitialPopulation(variant, seedArg)} :
           /\ genomes' = st.genomes
           /\ heap' = st.heap
           /\ rand' = st.rnd
           /\ runs' = Append(runs, <<Snapshot(variant, "Init", 0, st.rnd, st.genomes,
                                             st.heap)>>)
    /\ inBuf' = Zeros(variant, 4)
    /\ outBuf' = Zeros(variant, 3)
    /\ pc' = "eval" /\ gen' = 0 /\ cnt' = 0
    /\ quality' = <<>> /\ evaluated' = <<>> /\ best' = <<>> /\ kept' = <<>>
    /\ last' = <<>>
    /\ UNCHANGED evoFrame

NextTwice == NextEvo \/ Again

SpecTwice == InitEvo /\ [][NextTwice]_vars

SearchIterations == 3
MaxCPU == 3

\* what a model call can return: 0, the .1 of the count, the 1.0 min starts at
Qualities == {0, 100, 1000}

\* a tally that counts every result
TallyAll(st, result) ==
    [st EXCEPT !.min = IF result.Quality < st.min THEN result.Quality ELSE @,
               !.seed = IF result.Quality < st.min THEN result.Seed ELSE @,
               !.count = @ + 1,
               !.received = Append(@, result)]

\* if result.Quality < min { min, seed = result.Quality, result.Seed }
\* if result.Quality < .1 { count++ }
Tally(st, result) ==
    [st EXCEPT !.min = IF result.Quality < st.min THEN result.Quality ELSE @,
               !.seed = IF result.Quality < st.min THEN result.Seed ELSE @,
               !.count = IF result.Quality < 100 THEN @ + 1 ELSE @,
               !.received = Append(@, result)]

\* go routine(j); j++; flight++
Go(st) ==
    [st EXCEPT !.routine = Append(@, [at |-> "model", quality |-> 0]),
               !.started = Append(@, st.j * NumGenomes),
               !.j = @ + 1,
               !.flight = @ + 1]

\* a receive that leaves the result in the channel
ReceivedKept(st) == st

\* result := <-results
Received(st) == [st EXCEPT !.results = Tail(@)]

InitSweep ==
    /\ NoStream
    /\ NoNet
    /\ NoEvo
    /\ variant \in Variants
    /\ heap = <<>>
    /\ power = <<>>
    /\ \E cpus \in 1..MaxCPU :
           sweep = [pc |-> "start", cpus |-> cpus, i |-> 0, j |-> 0, flight |-> 0,
                    min |-> 1000, seed |-> 0, count |-> 0, results |-> <<>>,
                    routine |-> <<>>, started |-> <<>>, received |-> <<>>,
                    printed |-> <<>>]

sweepFrame == <<streamVars, netVars, evoVars, variant, heap, power>>

\* for i := 0; i < runtime.NumCPU() && j < SearchIterations; i++ { go routine(j) ... }
SweepStart ==
    /\ sweep.pc = "start"
    /\ sweep' = IF sweep.i < sweep.cpus /\ sweep.j < SearchIterations
                THEN [Go(sweep) EXCEPT !.i = @ + 1]
                ELSE [sweep EXCEPT !.pc = "refill"]
    /\ UNCHANGED sweepFrame

\* for j < SearchIterations { result := <-results; flight--; ...; go routine(j) ... }
SweepRefill ==
    /\ sweep.pc = "refill"
    /\ IF sweep.j < SearchIterations
       THEN /\ sweep.results # <<>>
            /\ sweep' = Go([Tally(Received(sweep), Head(sweep.results))
                               EXCEPT !.flight = @ - 1])
       ELSE sweep' = [sweep EXCEPT !.pc = "drain", !.i = 0]
    /\ UNCHANGED sweepFrame

\* for i := 0; i < flight; i++ { result := <-results; ... }
\* fmt.Println(min, seed, count)
SweepDrain ==
    /\ sweep.pc = "drain"
    /\ IF sweep.i < sweep.flight
       THEN /\ sweep.results # <<>>
            /\ sweep' = [Tally(Received(sweep), Head(sweep.results)) EXCEPT !.i = @ + 1]
       ELSE sweep' = [sweep EXCEPT !.pc = "printed",
                                   !.printed = <<sweep.min, sweep.seed, sweep.count>>]
    /\ UNCHANGED sweepFrame

\* Quality: model(seed * NumGenomes) in a routine
RoutineModel ==
    /\ \E g \in 1..Len(sweep.routine), q \in Qualities :
           /\ sweep.routine[g].at = "model"
           /\ sweep' = [sweep EXCEPT !.routine[g] = [at |-> "send", quality |-> q]]
    /\ UNCHANGED sweepFrame

\* results <- Result{...}: waits while the channel holds NumCPU results
RoutineSend ==
    /\ \E g \in 1..Len(sweep.routine) :
           /\ sweep.routine[g].at = "send"
           /\ Len(sweep.results) < sweep.cpus
           /\ sweep' = [sweep EXCEPT
                           !.routine[g].at = "done",
                           !.results = Append(@, [Seed |-> g - 1,
                                                  Quality |-> sweep.routine[g].quality])]
    /\ UNCHANGED sweepFrame

NextSweep == SweepStart \/ SweepRefill \/ SweepDrain \/ RoutineModel \/ RoutineSend

SpecSweep == InitSweep /\ [][NextSweep]_vars

RECURSIVE Least(_, _, _)
\* the least of m and the qualities of rs from k on
Least(rs, k, m) ==
    IF k > Len(rs) THEN m
    ELSE Least(rs, k + 1, IF rs[k].Quality < m THEN rs[k].Quality ELSE m)

\* C17: the model is started once for each seed index 0..SearchIterations-1,
\* in that order, with the argument index * NumGenomes; when the line is
\* printed SearchIterations results were received, one per index; min is
\* the least of 1.0 and the qualities received and count the number of
\* results received with a quality below .1
C17_Sweep ==
    /\ \A k \in 1..Len(sweep.started) : sweep.started[k] = (k - 1) * NumGenomes
    /\ Len(sweep.started) <= SearchIterations
    /\ sweep.pc = "printed" =>
           /\ Len(sweep.started) = SearchIterations
           /\ Len(sweep.received) = SearchIterations
           /\ \A s \in 0..(SearchIterations - 1) :
                  Cardinality({k \in 1..Len(sweep.received) :
                                  sweep.received[k].Seed = s}) = 1
           /\ sweep.printed[1] = Least(sweep.received, 1, 1000)
           /\ sweep.printed[3] = Cardinality({k \in 1..Len(sweep.received) :
                                                 sweep.received[k].Quality < 100})
           /\ sweep.results = <<>>

\* process and every routine are scheduled: a step that stays possible is
\* taken
FairSweep ==
    /\ SpecSweep
    /\ WF_vars(SweepStart \/ SweepRefill \/ SweepDrain)
    /\ WF_vars(RoutineModel)
    /\ WF_vars(RoutineSend)

\* the runs started and not yet collected
InFlight == Len(sweep.started) - Len(sweep.received)

\* C24: at every point at most NumCPU runs are started and not collected,
\* NumCPU being the capacity of results; a routine that has its result finds
\* room in the channel; while the line is not printed some step can be
\* taken, and the line is printed in the end; then every routine started has
\* sent its result and returned
C24_NeverBlocks ==
    /\ [](/\ InFlight <= sweep.cpus
          /\ sweep.pc \in {"start", "refill"} => InFlight = sweep.flight
          /\ \A g \in 1..Len(sweep.routine) :
                 sweep.routine[g].at = "send" => Len(sweep.results) < sweep.cpus
          /\ Len(sweep.results) <= sweep.cpus
          /\ sweep.pc # "printed" => ENABLED NextSweep
          /\ sweep.pc = "printed" =>
                 /\ Len(sweep.routine) = SearchIterations
                 /\ \A g \in 1..Len(sweep.routine) : sweep.routine[g].at = "done")
    /\ <>(sweep.pc = "printed")

C24_Witness ==
    /\ sweep.cpus = 2
    /\ sweep.flight = 2
    /\ Len(sweep.results) = 1
    /\ \E g \in 1..Len(sweep.routine) : sweep.routine[g].at = "send"
    /\ sweep.pc = "refill"

RECURSIVE InOrder(_, _, _)
\* min, seed and count after the results of the routines from g on, taken
\* in the order of their seeds
InOrder(routine, g, st) ==
    IF g > Len(routine) THEN st
    ELSE InOrder(routine, g + 1,
                 <<IF routine[g].quality < st[1] THEN routine[g].quality ELSE st[1],
                   IF routine[g].quality < st[1] THEN g - 1 ELSE st[2],
                   IF routine[g].quality < 100 THEN st[3] + 1 ELSE st[3]>>)

\* C25: the line printed does not depend on the order the results arrive
\* in: it is the line printed when they arrive in the order of their seeds
C25_OrderFree ==
    sweep.pc = "printed" => sweep.printed = InOrder(sweep.routine, 1, <<1000, 0, 0>>)

C17_Witness ==
    /\ sweep.pc = "printed"
    /\ sweep.cpus = 2
    /\ sweep.received[1].Seed = 1
    /\ sweep.printed = <<0, 2, 1>>
    /\ \E k \in 1..SearchIterations : sweep.received[k].Quality = 100

(***************************************************************************)
(* SpecPeriod: powers of the step of the register.  The step                *)
(* lfsr = (lfsr >> 1) ^ (-(lfsr & 1) & LFSRMask) is linear over GF(2):     *)
(* step(x ^ y) = step(x) ^ step(y).  A linear map is the sequence of the   *)
(* images of the 32 unit vectors; power holds an exponent (of), the bits   *)
(* of it not yet used (n), their number (bit), step^(2^bit) (base) and     *)
(* step^(of mod 2^bit) (acc): acc applied to a state is the state after    *)
(* of mod 2^bit draws.                                                     *)
(***************************************************************************)
\* the bits of the register
Width == 32

\* 2^32 - 1, and (2^32 - 1) / p for its prime factors 3, 5, 17, 257, 65537
FullPeriod == <<65535, 65535>>
Cofactors == {<<21845, 21845>>, <<13107, 13107>>, <<3855, 3855>>, <<255, 255>>,
              <<0, 65535>>}

\* 2^32 - 2
BackOne == <<65535, 65534>>

\* numbers of draws from Rand(LFSRInit): 319306331 and 682436455
LongRuns == {<<4872, 14939>>, <<10413, 10087>>}

\* the state with bit i alone
Basis(i) == IF i < 16 THEN <<0, Pow2(i)>> ELSE <<Pow2(i - 16), 0>>

\* bit i (0..31) of a uint32
Bit(x, i) == IF i < 16 THEN (x[2] \div Pow2(i)) % 2 ELSE (x[1] \div Pow2(i - 16)) % 2

Identity == [i \in 1..Width |-> Basis(i - 1)]

\* the step of Float32 and Uint32 on the unit vectors
StepMap == [i \in 1..Width |-> Uint32(Basis(i - 1)).state]

RECURSIVE ApplyBits(_, _, _, _)
\* the XOR of the images of the bits lo..hi-1 of x that are set
ApplyBits(m, x, lo, hi) ==
    IF hi - lo = 1 THEN (IF Bit(x, lo) = 1 THEN m[lo + 1] ELSE <<0, 0>>)
    ELSE Xor32(ApplyBits(m, x, lo, (lo + hi) \div 2),
               ApplyBits(m, x, (lo + hi) \div 2, hi))

\* the image of x under the linear map m
Apply(m, x) == ApplyBits(m, x, 0, Width)

\* first b, then a
Compose(a, b) == [i \in 1..Width |-> Apply(a, b[i])]

InitPeriod ==
    /\ NoStream
    /\ NoNet
    /\ NoEvo
    /\ variant = "real"
    /\ heap = <<>>
    /\ sweep = <<>>
    /\ \E e \in {FullPeriod, BackOne} \cup Cofactors \cup LongRuns :
           power = [of |-> e, n |-> e, bit |-> 0, base |-> StepMap, acc |-> Identity]

periodFrame == <<streamVars, netVars, evoVars, variant, heap, sweep>>

\* the low bit of n is 1: acc takes the 2^bit steps of base
PowerMultiply ==
    /\ power.n # <<0, 0>>
    /\ power.n[2] % 2 = 1
    /\ power' = [power EXCEPT !.n = Shr1(@), !.bit = @ + 1,
                              !.acc = Compose(power.base, @),
                              !.base = Compose(@, @)]
    /\ UNCHANGED periodFrame

\* the low bit of n is 0
PowerSquare ==
    /\ power.n # <<0, 0>>
    /\ power.n[2] % 2 = 0
    /\ power' = [power EXCEPT !.n = Shr1(@), !.bit = @ + 1, !.base = Compose(@, @)]
    /\ UNCHANGED periodFrame

NextPeriod == PowerMultiply \/ PowerSquare

SpecPeriod == InitPeriod /\ [][NextPeriod]_vars

\* the draws acc stands for: the bits of the exponent used so far
Drawn == AndMask(power.of, power.bit)

\* C19: the step of the register has order 2^32 - 1 exactly: 2^32 - 1 steps
\* bring every state back to itself, and (2^32 - 1) / p steps, for each
\* prime factor p of 2^32 - 1, do not; no smaller number of steps brings a
\* state back.  (The powers of the step are then 2^32 - 1 different maps in
\* an algebra of at most 2^32 elements: every non-zero state returns to its
\* start after 2^32 - 1 draws and not before, having been every non-zero
\* state once.)
C19_MaximalPeriod ==
    /\ \A x \in StreamSeeds : Apply(StepMap, x) = Uint32(x).state
    /\ \A x \in StreamSeeds \ {<<0, 0>>} :
           Apply(power.acc, x) = x <=> Drawn \in {<<0, 0>>, FullPeriod}
    /\ power.acc = Identity <=> Drawn \in {<<0, 0>>, FullPeriod}

C19_Witness ==
    /\ power.of = FullPeriod
    /\ power.n = <<0, 0>>
    /\ power.acc = Identity
    /\ power.base # Identity
    /\ Apply(power.acc, LFSRInit) = LFSRInit

\* the largest offset a run of the sweep adds to LFSRInit: its seed argument
\* 255 * 256, the last genome 255 and 2 * 256 for the second layer
MaxOffset == 255 * 256 + 255 + 2 * 256

\* C27: the step maps 0 to 0 and is injective on the 32-bit states (some
\* power of it undoes it), so no stream leaves the non-zero states: the
\* seeds LFSRInit + offset of the sweep are non-zero without wrap-around,
\* and a stream that starts from a non-zero seed is non-zero after any
\* number of draws
C27_NonZero ==
    /\ Uint32(<<0, 0>>).state = <<0, 0>>
    /\ Float32(<<0, 0>>).state = <<0, 0>>
    /\ \A x, y \in StreamSeeds :
           Uint32(Xor32(x, y)).state = Xor32(Uint32(x).state, Uint32(y).state)
    /\ (power.of = BackOne /\ power.n = <<0, 0>>) =>
           /\ Compose(power.acc, StepMap) = Identity
           /\ \A x \in StreamSeeds : Apply(power.acc, Uint32(x).state) = x
    /\ \A i, j \in 1..Width : i # j => StepMap[i] # StepMap[j]
    /\ LFSRInit[1] + ((LFSRInit[2] + MaxOffset) \div Half) < Half
    /\ \A k \in {0, NumGenomes, MaxOffset} : AddInt(LFSRInit, k) # <<0, 0>>
    /\ \A x \in StreamSeeds \ {<<0, 0>>} :
           /\ Apply(power.acc, x) # <<0, 0>>
           /\ Uint32(Apply(power.acc, x)).state # <<0, 0>>

C27_Witness ==
    /\ power.of = BackOne
    /\ power.n = <<0, 0>>
    /\ power.acc # Identity
    /\ Compose(power.acc, StepMap) = Identity
    /\ Apply(power.acc, LFSRInit) # <<0, 0>>

\* C18: Float32 called on a state reached from the seed LFSRInit returns a
\* value below 1, and the new state, the numerator, is below 2^32 - 1
C18_UnitInterval ==
    LET draw == Float32(Apply(power.acc, LFSRInit))
    IN  draw.value[1] < Half /\ draw.state # <<65535, 65535>>

(***************************************************************************)
(* SpecSelect: the generations of a variant with the fitness values the    *)
(* evaluation can give drawn from a small set.  The kept genomes keep      *)
(* their fitness (Inference leaves a network as it was, reproduction       *)
(* leaves the kept genomes as they were), every offspring gets any fitness *)
(* of the set; the networks are left out.                                  *)
(***************************************************************************)
\* the finite fitness values: 1/4 and 1/2
Fits == {16384, 32768}

\* the fitness an evaluation can give: the sums of the weight-free variant
\* are bounded by the inputs, the others overflow for large weights
OffspringFits(v) == IF HasWeights(v) THEN Fits \cup {NaN} ELSE Fits

\* the genomes a Reproduce phase appends
NumOffspring(v) ==
    IF v = "random" THEN NumCrossovers ELSE 2 * NumCrossovers + NumGenomes

Evaluated(fitness) == [Network |-> <<>>, Fitness |-> fitness]

InitSelect ==
    /\ NoStream
    /\ NoNet
    /\ NoRest
    /\ variant \in Variants
    /\ heap = <<>>
    /\ \E fs \in [1..NumGenomes -> Fits] : genomes = [j \in 1..NumGenomes |-> Evaluated(fs[j])]
    /\ evaluated = FitnessOf(genomes)
    /\ rand = <<0, 0>> /\ data = <<>> /\ seedArg = 0
    /\ pc = "select" /\ gen = 0 /\ cnt = 0
    /\ quality = <<>> /\ best = <<>> /\ kept = <<>> /\ last = <<>>
    /\ runs = << <<Snapshot(variant, "Evaluate", 0, rand, genomes, heap)>> >>

\* the crossover loop, the mutation loop and the evaluation of the next
\* generation
Breed ==
    /\ pc = "crossover"
    /\ \E fs \in [1..NumOffspring(variant) -> OffspringFits(variant)] :
           genomes' = genomes \o [j \in 1..NumOffspring(variant) |-> Evaluated(fs[j])]
    /\ evaluated' = FitnessOf(genomes')
    /\ pc' = "select"
    /\ runs' = Record(runs, Snapshot(variant, "Evaluate", 0, rand, genomes', heap))
    /\ UNCHANGED <<evoFrame, heap, inBuf, outBuf, rand, gen, cnt, quality, best, kept,
                   last>>

NextSelect == Select \/ Breed

SpecSelect == InitSelect /\ [][NextSelect]_vars

(***************************************************************************)
(* Properties of the stream.                                               *)
(***************************************************************************)
\* the bits set in 0x80000057
TapBits == {0, 1, 2, 4, 6, 31}

\* the state a stream is in after its k-th recorded draw
PostA(k) == IF k < Len(outA) THEN outA[k + 1].pre ELSE ra
PostB(k) == IF k < Len(outB) THEN outB[k + 1].pre ELSE rb

\* C1: a Uint32 draw from state s leaves the state at (s >> 1) ^ 0x80000057
\* when the low bit of s is 1 and at s >> 1 when it is 0 (stated bit by bit:
\* bit i of the result is bit i+1 of s, flipped where the low bit of s and
\* bit i of the mask are both 1), and returns that new state; the first draw
\* from 0x55555555 is 0xAAAAAAFD.
C1_Uint32Step ==
    \A k \in 1..Len(outA) :
        outA[k].kind = "Uint32" =>
            LET s == outA[k].pre
                v == outA[k].value
            IN  /\ v = PostA(k)
                /\ \A i \in 0..31 :
                       Bit(v, i) =
                           ((IF i < 31 THEN Bit(s, i + 1) ELSE 0)
                              + (IF Bit(s, 0) = 1 /\ i \in TapBits THEN 1 ELSE 0)) % 2
                /\ (s = <<21845, 21845>> => v = <<43690, 43773>>)

\* a Uint32 draw from 0x55555555 (low bit 1) followed by a Uint32 draw from a
\* state whose low bit is 0
C1_Witness ==
    /\ Len(outA) >= 2
    /\ outA[1].kind = "Uint32" /\ outA[1].pre = LFSRInit
    /\ outA[1].value = <<43690, 43773>>
    /\ \E k \in 2..Len(outA) : outA[k].kind = "Uint32" /\ outA[k].pre[2] % 2 = 0

\* C2: Float32 and Uint32 advance the state by the same single step: after
\* the same number of draws two streams started alike are in the same state
\* whatever the mix of calls, every draw moves the state to the successor
\* C1 describes, and equal calls return equal values.
C2_SameStep ==
    /\ \A k \in 1..Len(outA) : PostA(k) = Uint32(outA[k].pre).state
    /\ \A k \in 1..Len(outB) : PostB(k) = Uint32(outB[k].pre).state
    /\ \A k \in 1..Len(outA) :
           k <= Len(outB) =>
               /\ outA[k].pre = outB[k].pre
               /\ PostA(k) = PostB(k)
               /\ (outA[k].kind = outB[k].kind => outA[k].value = outB[k].value)
    /\ (Len(outA) = Len(outB) => ra = rb)

\* both streams drawn from twice, by different methods at each position
C2_Witness ==
    /\ Len(outA) >= 2 /\ Len(outB) >= 2
    /\ outA[1].kind = "Float32" /\ outB[1].kind = "Uint32"
    /\ outA[2].kind = "Uint32" /\ outB[2].kind = "Float32"
    /\ ra # outA[1].pre

(***************************************************************************)
(* Properties of the selection.                                            *)
(***************************************************************************)
\* the state after sort.Slice and the truncation
AfterSelect == gen > 0 /\ cnt = 0 /\ pc \in {"crossover", "quality"}

Finite(fs) == {j \in 1..Len(fs) : ~IsNaN(fs[j])}

\* C4: after Select and Truncate the population has NumGenomes genomes and
\* their fitness is non-decreasing in population order, every NaN after every
\* number.
C4_PopulationInvariant ==
    AfterSelect =>
        /\ Len(genomes) = NumGenomes
        /\ \A i, j \in 1..Len(genomes) :
               i < j =>
                   \/ IsNaN(genomes[j].Fitness)
                   \/ (~IsNaN(genomes[i].Fitness)
                          /\ genomes[i].Fitness <= genomes[j].Fitness)

\* C5: the sort ranks no NaN fitness ahead of a finite one: rank 0 is not NaN
\* when some evaluated fitness is finite, and no kept fitness is NaN when at
\* least NumGenomes evaluated ones are finite.
C5_NaNLast ==
    AfterSelect =>
        /\ \A i, j \in 1..Len(genomes) :
               i < j => ~(IsNaN(genomes[i].Fitness) /\ ~IsNaN(genomes[j].Fitness))
        /\ (Finite(evaluated) # {} => ~IsNaN(genomes[1].Fitness))
        /\ (Cardinality(Finite(evaluated)) >= NumGenomes =>
               \A j \in 1..Len(genomes) : ~IsNaN(genomes[j].Fitness))

\* C6: the rank-0 fitness of generation g+1 is not NaN and not greater than
\* the rank-0 fitness of generation g.
C6_NonDegradation ==
    \A g \in 1..Len(best) :
        g < Len(best) => ~IsNaN(best[g + 1]) /\ best[g + 1] <= best[g]

(***************************************************************************)
(* Properties of the reproduction.                                         *)
(***************************************************************************)
\* the vectors of the population: genome, layer, position in the layer
Vectors ==
    {<<g, i, k>> \in (1..Len(genomes)) \X (1..2) \X (1..2) :
        k <= Len(Addresses(variant, genomes[g].Network)[i])}

AddressOf(t) == Addresses(variant, genomes[t[1]].Network)[t[2]][t[3]]

\* C8: from the truncation to the next sort the parameters and the stream
\* states of the kept genomes are unchanged, whatever crossovers and mutations
\* have run, and no two vectors of the population are the same array.
C8_KeptUnchanged ==
    /\ (gen > 0 /\ pc \in {"crossover", "mutation", "eval", "select"} =>
           \A j \in 1..NumGenomes :
               Contents(variant, genomes[j].Network, heap) = kept[j])
    /\ (pc \in {"crossover", "mutation", "eval", "select"} =>
           \A t, u \in Vectors : t # u => AddressOf(t) # AddressOf(u))

\* a Reproduce phase has run to its end: a crossover has changed its offspring
\* and the population has all its offspring
C8_Witness ==
    /\ pc = "eval" /\ gen > 0
    /\ HasWeights(variant)
    /\ Len(genomes) = NumGenomes + NumOffspring(variant)
    /\ \E g \in (NumGenomes + 1)..Len(genomes) :
           \A j \in 1..NumGenomes :
               Contents(variant, genomes[g].Network, heap) # kept[j]

\* the state after a pass of the crossover loop
AfterCrossover ==
    /\ pc \in {"crossover", "mutation"}
    /\ HasWeights(variant)
    /\ last # <<>>
    /\ last.op = "crossover"

\* C9: a crossover appends two offspring with no fitness; offspring A is
\* parent a with the slot valueA of the chosen vector of the chosen layer
\* holding the slot valueB of parent b, offspring B is parent b with its slot
\* valueB holding the slot valueA of parent a.
C9_CrossoverSwap ==
    AfterCrossover =>
        LET l  == last.layer + 1
            A  == genomes[last.at]
            B  == genomes[last.at + 1]
        IN  /\ Len(genomes) = last.at + 1
            /\ A.Fitness = 0 /\ B.Fitness = 0
            /\ Contents(variant, A.Network, heap) =
                   [last.parentA EXCEPT ![l][last.vector][last.valueA + 1] =
                                            last.parentB[l][last.vector][last.valueB + 1]]
            /\ Contents(variant, B.Network, heap) =
                   [last.parentB EXCEPT ![l][last.vector][last.valueB + 1] =
                                            last.parentA[l][last.vector][last.valueA + 1]]

\* a crossover of two slots of different position whose values differ
C9_Witness ==
    /\ AfterCrossover
    /\ last.valueA # last.valueB
    /\ Contents(variant, genomes[last.at].Network, heap) # last.parentA
    /\ Contents(variant, genomes[last.at + 1].Network, heap) # last.parentB

\* the state after a pass of the mutation loop
AfterMutation ==
    /\ pc \in {"mutation", "eval"}
    /\ last # <<>>
    /\ last.op = "mutation"

\* C10: mutation i appends one offspring with no fitness: the kept genome i
\* with 2u-1, a value of -1..1, added to one slot of one vector of one layer
\* (for the complex variant to its real or to its imaginary part only), every
\* other slot and every stream state as in the parent.
C10_MutationDelta ==
    AfterMutation =>
        LET l     == last.layer + 1
            child == genomes[last.at]
            d     == Signed(last.u)
            old   == last.parent[l][last.vector][last.value + 1]
            new   == IF variant = "complex"
                     THEN (IF last.part = 0 THEN <<old[1] + d, old[2]>>
                           ELSE <<old[1], old[2] + d>>)
                     ELSE old + d
        IN  /\ Len(genomes) = last.at
            /\ last.at = NumGenomes + 2 * NumCrossovers + last.i
            /\ last.parent = kept[last.i]
            /\ child.Fitness = 0
            /\ d \in -1..1
            /\ Contents(variant, child.Network, heap) =
                   [last.parent EXCEPT ![l][last.vector][last.value + 1] = new]

\* a mutation of the imaginary part of a slot of a complex genome
C10_Witness ==
    /\ AfterMutation
    /\ variant = "complex"
    /\ last.part = 1
    /\ Contents(variant, genomes[last.at].Network, heap) # last.parent

(***************************************************************************)
(* Properties of the generation loop.                                      *)
(***************************************************************************)
RECURSIVE Generations(_)
Generations(n) ==
    IF n = 0 THEN <<>> ELSE <<"Evaluate", "Select", "Reproduce">> \o Generations(n - 1)

\* the phases of a whole run, in order
Schedule == <<"Init">> \o Generations(LastGen) \o <<"Evaluate", "Select", "Terminal">>

\* a step that begins a phase: every step but the later passes of the
\* crossover loop and the passes of the mutation loop
BeginsPhase(x) == x.phase # "Mutation" /\ (x.phase = "Crossover" => x.step = 0)

\* the phases a call has begun so far
Phases(steps) ==
    LET begun == SelectSeq(steps, BeginsPhase)
    IN  [k \in 1..Len(begun) |->
            IF begun[k].phase = "Crossover" THEN "Reproduce" ELSE begun[k].phase]

\* the fitness of genome j of the population, evaluated on its own
FitnessAlone(j) ==
    Fitness(Flowers(variant, data, 1,
                    [net |-> genomes[j].Network, heap |-> heap, inputs |-> inBuf,
                     outputs |-> outBuf, sum |-> 0]).sum,
            Len(data))

\* C11: a run goes through Init, then LastGen + 1 times (128 in the code)
\* Evaluate and Select with a Reproduce after each Select but the last, in
\* this order, and every population that is sorted has the fitness of each
\* of its genomes, offspring included, assigned by the evaluation before.
C11_Schedule ==
    runs # <<>> =>
        LET ph == Phases(runs[Len(runs)])
        IN  /\ Len(ph) <= Len(Schedule)
            /\ \A k \in 1..Len(ph) : k <= Len(Schedule) => ph[k] = Schedule[k]
            /\ (pc = "done" => ph = Schedule)
            /\ (pc = "select" /\ data # <<>> =>
                   \A j \in 1..Len(genomes) : genomes[j].Fitness = FitnessAlone(j))

\* a whole run, with an offspring of non-zero fitness in an evaluated
\* population
C11_Witness ==
    /\ pc = "done"
    /\ Phases(runs[Len(runs)]) = Schedule
    /\ \E k \in 1..Len(runs[Len(runs)]) :
           LET x == runs[Len(runs)][k]
           IN  /\ x.phase = "Evaluate"
               /\ Len(x.population) > NumGenomes
               /\ \E j \in (NumGenomes + 1)..Len(x.population) :
                      x.population[j].Fitness # 0

\* the steps of one generation after its Select: the passes of the crossover
\* loop and of the mutation loop, and the next Evaluate and Select
PerGeneration ==
    NumCrossovers + (IF variant = "random" THEN 0 ELSE NumGenomes) + 2

\* the steps a run has left at a Select that ends generation g (the last one
\* is followed by the quality computation alone)
StepsAfter(g) == (LastGen - g) * PerGeneration + 1

\* the steps a run has left: one per step of the loop still to take
Remaining ==
    CASE pc = "done" -> 0
      [] pc = "quality" -> 1
      [] pc = "select" -> 1 + StepsAfter(gen)
      [] pc = "eval" -> 2 + StepsAfter(gen)
      [] pc = "mutation" -> (NumGenomes - cnt) + 2 + StepsAfter(gen)
      [] OTHER -> (NumCrossovers - cnt) + 2 + StepsAfter(gen)
                      + (IF variant = "random" THEN 0 ELSE NumGenomes)

Reproduced == gen > 0 /\ pc = "eval"

\* C13 as amended: at the end of each Reproduce phase the population holds
\* the NumGenomes kept genomes and, in the real, complex and shared variants,
\* two offspring per crossover and one per mutation (NumGenomes + 512 +
\* NumGenomes), in the random variant one offspring per crossover and none
\* by mutation (NumGenomes + 256); the next Select cuts it back to NumGenomes.
C13_PopulationSize ==
    /\ Reproduced =>
           Len(genomes) = IF variant = "random"
                          THEN NumGenomes + NumCrossovers
                          ELSE NumGenomes + 2 * NumCrossovers + NumGenomes
    /\ AfterSelect => Len(genomes) = NumGenomes

\* C13 as written: the size is NumGenomes + 512 + NumGenomes in every variant
C13_SameInEveryVariant ==
    /\ Reproduced => Len(genomes) = NumGenomes + 2 * NumCrossovers + NumGenomes
    /\ AfterSelect => Len(genomes) = NumGenomes

\* a run of the random variant that ended: its population was evaluated with
\* one offspring per crossover and then cut back
C13_Witness ==
    /\ pc = "done"
    /\ variant = "random"
    /\ \E k \in 1..(Len(runs[Len(runs)]) - 1) :
           LET x == runs[Len(runs)][k]
               y == runs[Len(runs)][k + 1]
           IN  /\ x.phase = "Evaluate" /\ Len(x.population) = NumGenomes + NumCrossovers
               /\ y.phase = "Select" /\ Len(y.population) = NumGenomes

(***************************************************************************)
(* Properties of Inference and Copy.                                       *)
(***************************************************************************)

\* C3: Inference leaves every layer's stored Rand, every weight and bias (of
\* the network and of its copy) and the caller's inputs as they were before
\* the call, and a second call on the same network with the same inputs
\* writes the same outputs as the first.
C3_InferenceFrame ==
    calls > 0 =>
        /\ net = before.net
        /\ cpy = before.cpy
        /\ heap = before.heap
        /\ inBuf = before.inputs
        /\ (calls = 2 => outBuf = prevOut)

\* a second call has written outputs that are not the zeroed buffer
C3_Witness ==
    /\ calls = 2
    /\ outBuf # Zeros(variant, 3)
    /\ outBuf = prevOut

\* C7: a copy has the layers, the Columns and Rows, the stream states and the
\* parameter values of its source and shares no vector with it: a write to a
\* slot of one leaves the other as it was.
C7_CopyIndependent ==
    cpy # <<>> =>
        /\ Len(cpy) = Len(net)
        /\ Contents(variant, net, heap) = shSrc
        /\ Contents(variant, cpy, heap) = shCpy
        /\ \A i \in 1..Len(net), k \in 1..Len(cpy) :
               \A j \in 1..Len(Addresses(variant, net)[i]) :
                   \A l \in 1..Len(Addresses(variant, cpy)[k]) :
                       Addresses(variant, net)[i][j] # Addresses(variant, cpy)[k][l]
        /\ (wrote = {} => Contents(variant, cpy, heap) = Contents(variant, net, heap))

\* a slot of the copy was written and the source differs from the copy
C7_Witness ==
    /\ cpy # <<>>
    /\ wrote = {"cpy"}
    /\ Contents(variant, cpy, heap) # Contents(variant, net, heap)
    /\ Contents(variant, net, heap) = shSrc


====
